---- MODULE Spec2Model ----
(***************************************************************************)
(* Model of the guest-memory-management core of MicroV's domain object    *)
(* (vmm/src/hve/arch/intel_x64/domain.cpp): the donated-page tracker, the  *)
(* donate/reclaim protocol between the root domain and guest domains.      *)
(* Addresses are byte addresses; a page_range_set is the sequence of the   *)
(* std::set's elements in iteration order.                                 *)
(***************************************************************************)
EXTENDS Integers, Sequences, FiniteSets, TLC

----------------------------------------------------------------------------
(* Bounds of the model *)

MaxPages == 4

MaxGuests == 2

\* pages of the root that the donate/reclaim protocol runs range over
MaxRootPages == 2

\* IOMMUs of the machine
MaxIommus == 2


\* pages offered to the tracker calls that are followed write by write
MaxLockPages == 3

\* pages a borrower's ranges may count twice over: the runs of the tracker
\* stop inserting covered pages once this many are counted twice
MaxRepeats == 1

\* pages of the single range whose removals are followed one by one
MaxCount == 5

\* PCI buses and functions per bus that map_dma walks
pci_nr_bus == 2

pci_nr_devfn == 3

----------------------------------------------------------------------------
(* Program constants *)

UV_PAGE_SIZE == 4096

UV_PAGE_FROM == 12

PT_FROM == 12

PD_FROM == 21

PDPT_FROM == 30

Pow2(n) ==
    IF n = 12 THEN 4096 ELSE IF n = 21 THEN 2097152
    ELSE IF n = 30 THEN 1073741824 ELSE 1

\* bfn::upper(addr, from): addr with its low `from` bits cleared
upper(addr, from) == addr - (addr % Pow2(from))

\* the 4K pages the model tracks: pages 1..MaxPages of the root's address space
Pages == { i * UV_PAGE_SIZE : i \in 1..MaxPages }

\* the runs offer borrower 1 every page and each other borrower the first
\* page, which is the page borrowers compete for
SharedPages == { UV_PAGE_SIZE }

TrackerPages(g) == IF g = 1 THEN Pages ELSE SharedPages

\* domain identifiers of the guests; the root domain is 0
Guests == 1..MaxGuests

ROOT_DOMID == 0

----------------------------------------------------------------------------
(* struct page_range *)

PageRange(s, c) == [start |-> s, count |-> c]

limit(r) == r.start + (r.count * UV_PAGE_SIZE)

contains(r, gpa) == gpa >= r.start /\ gpa < limit(r)

contiguous_below(r, gpa) == limit(r) = gpa

contiguous_above(r, gpa) == gpa + UV_PAGE_SIZE = r.start

top_page(r, gpa) == gpa = limit(r) - UV_PAGE_SIZE

bottom_page(r, gpa) == gpa = r.start

middle_page(r, gpa) == gpa > r.start /\ gpa < limit(r) - UV_PAGE_SIZE

----------------------------------------------------------------------------
(* page_range_set: std::set<page_range> ordered by start address.  An      *)
(* iterator is an index 1..Len(rs); Len(rs)+1 is end().                    *)

set_end(rs) == Len(rs) + 1

\* first element whose start is not less than gpa
lower_bound(rs, gpa) ==
    IF \E i \in 1..Len(rs) : rs[i].start >= gpa
    THEN CHOOSE i \in 1..Len(rs) :
            /\ rs[i].start >= gpa
            /\ \A j \in 1..(i - 1) : rs[j].start < gpa
    ELSE set_end(rs)

set_erase(rs, i) == SubSeq(rs, 1, i - 1) \o SubSeq(rs, i + 1, Len(rs))

\* emplace / emplace_hint: insert in key order unless an element with an
\* equivalent key (same start) is already in the set
set_emplace(rs, s, c) ==
    IF \E i \in 1..Len(rs) : rs[i].start = s
    THEN rs
    ELSE LET k == Cardinality({ i \in 1..Len(rs) : rs[i].start < s })
         IN SubSeq(rs, 1, k) \o << PageRange(s, c) >> \o SubSeq(rs, k + 1, Len(rs))

\* write through the iterator's pointee (the (page_range *)&(*range) cast)
set_assign(rs, i, r) == [rs EXCEPT ![i] = r]

find_page_range(rs, gpa) ==
    IF Len(rs) = 0 THEN set_end(rs)
    ELSE LET range == lower_bound(rs, gpa)
         IN IF range = 1
            THEN (IF contains(rs[range], gpa) THEN range ELSE set_end(rs))
            ELSE IF range = set_end(rs)
            THEN (IF contains(rs[range - 1], gpa) THEN range - 1 ELSE set_end(rs))
            ELSE IF contains(rs[range], gpa) THEN range
            ELSE IF contains(rs[range - 1], gpa) THEN range - 1 ELSE set_end(rs)

extend_page_range_above(rs, i) ==
    set_assign(rs, i, PageRange(rs[i].start, rs[i].count + 1))

\* extend_page_range_below that moves the start down by two pages
extend_page_range_below_two(rs, i) ==
    set_assign(rs, i, PageRange(rs[i].start - 2 * UV_PAGE_SIZE, rs[i].count + 1))

\* extend_page_range_below that forgets to move the start down
extend_page_range_below_nostart(rs, i) ==
    set_assign(rs, i, PageRange(rs[i].start, rs[i].count + 1))

extend_page_range_below(rs, i) ==
    set_assign(rs, i, PageRange(rs[i].start - UV_PAGE_SIZE, rs[i].count + 1))

----------------------------------------------------------------------------
(* State *)

VARIABLES
    m_donated_page_map,   \* root's tracker: borrower id -> page_range_set
    last,                 \* the last operation performed and its result
    script,               \* inserts still to be applied by a scripted run
    root_ept,             \* root's m_ept_map, per tracked 4K page
    guest_ept,            \* each guest's m_ept_map
    xen_pages,            \* pages handed to a paravirtualized guest's xen domain
    domains,              \* the guest domains get_domain() still finds
    in_flight,            \* a shootdown was begun and never ended
    iommus,               \* each IOMMU: its capabilities, DMA remapping on or off
    iodom,                \* each domain's devices, IOMMU set and map_dma progress
    locks,                \* the root's spinlocks: the processor that holds each
    cpu                   \* each processor's position in the operation it runs

proto_vars == << root_ept, guest_ept, xen_pages, domains, in_flight >>

io_vars == << iommus, iodom >>

smp_vars == << locks, cpu >>

\* the state of the donation protocol apart from the processors
page_vars == << m_donated_page_map, script, proto_vars >>

vars == << m_donated_page_map, last, script, proto_vars, io_vars, smp_vars >>

NoScript == [dom |-> 0, base |-> 0, todo |-> << >>]

NoOp == [op |-> "none"]

----------------------------------------------------------------------------
(* Donated-page tracker operations, as functions of the tracker map *)

\* bool domain::page_already_donated(domainid_t, uint64_t)
page_already_donated(map, guest_domid, page_gpa) ==
    IF guest_domid \notin DOMAIN map THEN FALSE
    ELSE find_page_range(map[guest_domid], page_gpa) # set_end(map[guest_domid])

\* bool domain::page_already_donated(uint64_t)
page_already_donated_any(map, page_gpa) ==
    \E d \in DOMAIN map : find_page_range(map[d], page_gpa) # set_end(map[d])

\* bool domain::donated_pages_to_guest(domainid_t)
donated_pages_to_guest(map, guest_domid) == guest_domid \in DOMAIN map

\* the body of add_page_to_donated_range on one (non-absent) range set
add_page_to_range_set(rs, page_gpa) ==
    IF Len(rs) = 0 THEN set_emplace(rs, page_gpa, 1)
    ELSE LET range == lower_bound(rs, page_gpa)
         IN IF range = set_end(rs)
            THEN (IF contiguous_below(rs[range - 1], page_gpa)
                  THEN extend_page_range_above(rs, range - 1)
                  ELSE set_emplace(rs, page_gpa, 1))
            ELSE IF contiguous_above(rs[range], page_gpa)
            THEN extend_page_range_below(rs, range)
            ELSE IF range # 1 /\ contiguous_below(rs[range - 1], page_gpa)
            THEN extend_page_range_above(rs, range - 1)
            ELSE set_emplace(rs, page_gpa, 1)

\* void domain::add_page_to_donated_range(domainid_t, uint64_t)
add_page_to_donated_range(map, guest_domid, page_gpa) ==
    LET rs == IF guest_domid \in DOMAIN map THEN map[guest_domid] ELSE << >>
    IN [d \in (DOMAIN map) \cup {guest_domid} |->
            IF d = guest_domid THEN add_page_to_range_set(rs, page_gpa) ELSE map[d]]

\* the middle-page split that counts the removed page into the lower range
split_page_range_keep(rs, range, page_gpa) ==
    LET r == rs[range]
        upper_start == page_gpa + UV_PAGE_SIZE
        upper_count == (limit(r) - upper_start) \div Pow2(UV_PAGE_FROM)
        lower_start == r.start
        lower_count == ((page_gpa - lower_start) \div Pow2(UV_PAGE_FROM)) + 1
    IN set_emplace(set_emplace(set_erase(rs, range), upper_start, upper_count),
                   lower_start, lower_count)

\* the middle-page case of remove_page_from_donated_range: erase the range,
\* emplace the pages above page_gpa, then the pages below it
split_page_range(rs, range, page_gpa) ==
    LET r == rs[range]
        upper_start == page_gpa + UV_PAGE_SIZE
        upper_count == (limit(r) - upper_start) \div Pow2(UV_PAGE_FROM)
        lower_start == r.start
        lower_count == (page_gpa - lower_start) \div Pow2(UV_PAGE_FROM)
    IN set_emplace(set_emplace(set_erase(rs, range), upper_start, upper_count),
                   lower_start, lower_count)

\* a remove that shrinks a range from below without moving its start
remove_page_from_range_set_keep_start(rs, page_gpa) ==
    LET range == find_page_range(rs, page_gpa)
    IN IF range = set_end(rs) THEN rs
       ELSE LET r == rs[range]
            IN IF top_page(r, page_gpa)
               THEN (IF r.count = 1
                     THEN set_erase(rs, range)
                     ELSE set_assign(rs, range, PageRange(r.start, r.count - 1)))
               ELSE IF middle_page(r, page_gpa)
               THEN split_page_range(rs, range, page_gpa)
               ELSE IF bottom_page(r, page_gpa)
               THEN (IF r.count = 1
                     THEN set_erase(rs, range)
                     ELSE set_assign(rs, range, PageRange(r.start, r.count - 1)))
               ELSE rs

\* the body of remove_page_from_donated_range on one range set
remove_page_from_range_set(rs, page_gpa) ==
    LET range == find_page_range(rs, page_gpa)
    IN IF range = set_end(rs) THEN rs
       ELSE LET r == rs[range]
            IN IF top_page(r, page_gpa)
               THEN (IF r.count = 1
                     THEN set_erase(rs, range)
                     ELSE set_assign(rs, range, PageRange(r.start, r.count - 1)))
               ELSE IF middle_page(r, page_gpa)
               THEN split_page_range(rs, range, page_gpa)
               ELSE IF bottom_page(r, page_gpa)
               THEN (IF r.count = 1
                     THEN set_erase(rs, range)
                     ELSE set_assign(rs, range,
                                     PageRange(r.start + UV_PAGE_SIZE, r.count - 1)))
               ELSE rs

\* a remove that looks the borrower up with operator[], which creates the
\* entry of a borrower that has none
remove_page_from_donated_range_create(map, guest_domid, page_gpa) ==
    IF guest_domid \notin DOMAIN map
    THEN [d \in (DOMAIN map) \cup {guest_domid} |->
             IF d = guest_domid THEN << >> ELSE map[d]]
    ELSE [map EXCEPT ![guest_domid] = remove_page_from_range_set(@, page_gpa)]

\* void domain::remove_page_from_donated_range(domainid_t, uint64_t)
remove_page_from_donated_range(map, guest_domid, page_gpa) ==
    IF guest_domid \notin DOMAIN map THEN map
    ELSE [map EXCEPT ![guest_domid] = remove_page_from_range_set(@, page_gpa)]

----------------------------------------------------------------------------
(* A range set whose order the in-place writes have broken.  The writes    *)
(* through the iterator change an element's key where it stands, so the    *)
(* elements of a set can come to stand out of key order.  A search of such *)
(* a set has no defined result: it stops wherever the shape of the tree    *)
(* leads it.  Where the keys still stand in order (equal keys included)    *)
(* every search has its one result.                                        *)

range_set_in_order(rs) ==
    \A i \in 1..(Len(rs) - 1) : rs[i].start <= rs[i + 1].start

\* the positions a lower_bound search can stop at
lower_bounds(rs, gpa) ==
    { i \in 1..set_end(rs) :
        /\ (i = set_end(rs) \/ rs[i].start >= gpa)
        /\ (i = 1 \/ rs[i - 1].start < gpa) }

set_insert_at(rs, i, r) == SubSeq(rs, 1, i - 1) \o << r >> \o SubSeq(rs, i, Len(rs))

\* the results of emplace / emplace_hint: no insertion when the search meets
\* an element of the same key, an insertion between two elements the key
\* lies between otherwise
set_emplaces(rs, s, c) ==
    (IF \E i \in 1..Len(rs) : rs[i].start = s THEN { rs } ELSE {})
    \cup { set_insert_at(rs, i, PageRange(s, c)) : i \in
             { j \in 1..set_end(rs) :
                 /\ (j = 1 \/ rs[j - 1].start < s)
                 /\ (j = set_end(rs) \/ s < rs[j].start) } }

\* find_page_range, from the position its lower_bound stopped at
find_page_range_from(rs, gpa, range) ==
    IF Len(rs) = 0 THEN set_end(rs)
    ELSE IF range = 1
    THEN (IF contains(rs[range], gpa) THEN range ELSE set_end(rs))
    ELSE IF range = set_end(rs)
    THEN (IF contains(rs[range - 1], gpa) THEN range - 1 ELSE set_end(rs))
    ELSE IF contains(rs[range], gpa) THEN range
    ELSE IF contains(rs[range - 1], gpa) THEN range - 1 ELSE set_end(rs)

\* the body of add_page_to_donated_range, from the position its lower_bound
\* stopped at
add_page_from(rs, page_gpa, range) ==
    IF range = set_end(rs)
    THEN (IF contiguous_below(rs[range - 1], page_gpa)
          THEN { extend_page_range_above(rs, range - 1) }
          ELSE set_emplaces(rs, page_gpa, 1))
    ELSE IF contiguous_above(rs[range], page_gpa)
    THEN { extend_page_range_below(rs, range) }
    ELSE IF range # 1 /\ contiguous_below(rs[range - 1], page_gpa)
    THEN { extend_page_range_above(rs, range - 1) }
    ELSE set_emplaces(rs, page_gpa, 1)

\* the body of remove_page_from_donated_range, from the range its
\* find_page_range located
remove_page_from(rs, page_gpa, range) ==
    IF range = set_end(rs) THEN { rs }
    ELSE LET r == rs[range]
         IN IF top_page(r, page_gpa)
            THEN (IF r.count = 1
                  THEN { set_erase(rs, range) }
                  ELSE { set_assign(rs, range, PageRange(r.start, r.count - 1)) })
            ELSE IF middle_page(r, page_gpa)
            THEN LET upper_start == page_gpa + UV_PAGE_SIZE
                     upper_count == (limit(r) - upper_start) \div Pow2(UV_PAGE_FROM)
                     lower_count == (page_gpa - r.start) \div Pow2(UV_PAGE_FROM)
                 IN UNION { set_emplaces(a, r.start, lower_count) :
                              a \in set_emplaces(set_erase(rs, range),
                                                 upper_start, upper_count) }
            ELSE IF bottom_page(r, page_gpa)
            THEN (IF r.count = 1
                  THEN { set_erase(rs, range) }
                  ELSE { set_assign(rs, range,
                                    PageRange(r.start + UV_PAGE_SIZE, r.count - 1)) })
            ELSE { rs }

\* the range sets add_page_to_donated_range can leave
add_page_results(rs, page_gpa) ==
    IF range_set_in_order(rs) THEN { add_page_to_range_set(rs, page_gpa) }
    ELSE UNION { add_page_from(rs, page_gpa, range) :
                   range \in lower_bounds(rs, page_gpa) }

\* the answers page_already_donated(guest_domid, page_gpa) can give
page_already_donated_results(map, guest_domid, page_gpa) ==
    IF guest_domid \notin DOMAIN map THEN { FALSE }
    ELSE IF range_set_in_order(map[guest_domid])
    THEN { page_already_donated(map, guest_domid, page_gpa) }
    ELSE { find_page_range_from(map[guest_domid], page_gpa, range)
              # set_end(map[guest_domid]) :
              range \in lower_bounds(map[guest_domid], page_gpa) }

\* the tracker maps add_page_to_donated_range can leave
add_page_to_donated_range_results(map, guest_domid, page_gpa) ==
    IF guest_domid \notin DOMAIN map
    THEN { add_page_to_donated_range(map, guest_domid, page_gpa) }
    ELSE { [map EXCEPT ![guest_domid] = rs] :
              rs \in add_page_results(map[guest_domid], page_gpa) }

----------------------------------------------------------------------------
(* Specification of the tracker alone: inserts and removes of any page,    *)
(* for any borrower, in any order.                                         *)

EmptyMap == [d \in {} |-> << >>]

----------------------------------------------------------------------------
(* Address-translation maps.  An entry of the root's map covers one 4K     *)
(* page: present or not, the size of the mapping it belongs to (from),     *)
(* the host-physical address and the permission.                           *)

RootPages == { i * UV_PAGE_SIZE : i \in 1..MaxRootPages }

\* the one guest-physical address donations are installed at
GuestGpas == { 16 * UV_PAGE_SIZE }

\* the (permission, memory type) pairs donations are requested with
DonateAttrs == { << "rw", "uc" >>, << "rwe", "wb" >> }

\* guests that are paravirtualized (is_xen_dom())
XenDoms == { g \in Guests : g = 2 }

is_xen_dom(g) == g \in XenDoms

NotMapped == [present |-> FALSE]

\* ept::identity_map(m_ept_map, MAX_PHYS_ADDR): 2M read-write-execute entries
identity_map ==
    [p \in RootPages |->
        [present |-> TRUE, from |-> PD_FROM, hpa |-> p, perm |-> "rwe", mtype |-> "wb"]]

\* identity_map_convert_2m_to_4k(ept, gpa_2m): every 4K page of the 2M page
\* gets its own 4K entry with the same attributes
identity_map_convert_2m_to_4k(ept, gpa_2m) ==
    [p \in DOMAIN ept |->
        IF upper(p, PD_FROM) = gpa_2m /\ ept[p].present
        THEN [ept[p] EXCEPT !.from = PT_FROM]
        ELSE ept[p]]

\* the pages translated by the map entry that translates gpa: gpa alone
\* for a 4K entry or a missing one, the pages of the 2M or 1G mapping
\* otherwise
entry_pages(ept, gpa) ==
    IF ~ept[gpa].present THEN { gpa }
    ELSE { q \in DOMAIN ept :
             /\ ept[q].present
             /\ ept[q].from = ept[gpa].from
             /\ upper(q, ept[q].from) = upper(gpa, ept[gpa].from) }

\* ept::mmap::unmap(gpa): the entry that translates gpa is marked not present
mmap_unmap(ept, gpa) ==
    LET gone == entry_pages(ept, gpa)
    IN [q \in DOMAIN ept |-> IF q \in gone THEN NotMapped ELSE ept[q]]

\* domain::unmap(gpa)
ept_unmap(ept, gpa) == mmap_unmap(ept, gpa)

\* m_ept_map.map_4k(gpa, hpa, perm, mtype): install or replace the 4K entry;
\* a larger mapping that covers gpa is split to 4K entries first
map_4k(ept, gpa, hpa, perm, mtype) ==
    LET split == entry_pages(ept, gpa)
    IN [q \in DOMAIN ept |->
          IF q = gpa
          THEN [present |-> TRUE, from |-> PT_FROM, hpa |-> hpa, perm |-> perm,
                mtype |-> mtype]
          ELSE IF q \in split THEN [ept[q] EXCEPT !.from = PT_FROM]
          ELSE ept[q]]

\* m_ept_map.map_1g(gpa, hpa, perm, mtype): one 1G entry translates every
\* page of the 1G region
map_1g(ept, gpa, hpa, perm, mtype) ==
    [q \in DOMAIN ept |->
        IF upper(q, PDPT_FROM) = gpa
        THEN [present |-> TRUE, from |-> PDPT_FROM, hpa |-> hpa + (q - gpa),
              perm |-> perm, mtype |-> mtype]
        ELSE ept[q]]

\* domain::map_1g_rwe(gpa, hpa)
map_1g_rwe(ept, gpa, hpa) == map_1g(ept, gpa, hpa, "rwe", "wb")

\* domain::map_4k_rwe(gpa, hpa)
map_4k_rwe(ept, gpa, hpa) == map_4k(ept, gpa, hpa, "rwe", "wb")

NoGuestMap == [a \in GuestGpas |-> NotMapped]

ProtoInit ==
    /\ root_ept = identity_map
    /\ guest_ept = [g \in Guests |-> NoGuestMap]
    /\ xen_pages = [g \in Guests |-> NoGuestMap]
    /\ domains = Guests
    /\ in_flight = FALSE

----------------------------------------------------------------------------
(* IOMMUs and PCI devices.  An IOMMU is identified by a number (0 is the   *)
(* null pointer); m_iommu_set is the sequence of the set's elements in     *)
(* iteration order.                                                        *)

Iommus == 1..MaxIommus

\* the domains whose IOMMU coordination is followed: the root and one guest
IoDomains == { ROOT_DOMID, 1 }

\* the kinds of IOMMU the machine is built from
IommuKinds ==
    { [coherent_page_walk |-> TRUE, snoop_ctl |-> TRUE, psi_supported |-> TRUE,
       has_catchall_scope |-> TRUE],
      [coherent_page_walk |-> FALSE, snoop_ctl |-> TRUE, psi_supported |-> FALSE,
       has_catchall_scope |-> FALSE],
      [coherent_page_walk |-> TRUE, snoop_ctl |-> FALSE, psi_supported |-> TRUE,
       has_catchall_scope |-> FALSE] }

\* the functions reserved for passthrough: two functions of the last bus,
\* each in the scope of its own IOMMU
PassthruDevs ==
    { [cf8 |-> << pci_nr_bus - 1, f >>, m_iommu |-> f + 1] : f \in 0..1 }

pci_cfg_bus(cf8) == cf8[1]

pci_cfg_devfn(cf8) == cf8[2]

pci_cfg_bdf_to_addr(bus, devfn) == << bus, devfn >>

find_passthru_dev(addr) == \E pdev \in PassthruDevs : pdev.cf8 = addr

pci_bus_has_passthru_dev(bus) ==
    \E pdev \in PassthruDevs : pci_cfg_bus(pdev.cf8) = bus

NoDomain ==
    [m_pci_devs |-> << >>, m_iommu_set |-> << >>, m_dma_map_ready |-> FALSE,
     iommu_coherence |-> TRUE, iommu_snoop_ctl |-> TRUE,
     pc |-> "idle", todo |-> << >>,
     coherent |-> TRUE, snoop_ctl |-> TRUE, devs |-> << >>]

\* the state outside the runs that follow the IOMMU coordination
IoInit ==
    /\ iommus = [i \in Iommus |->
                    [coherent_page_walk |-> TRUE, snoop_ctl |-> TRUE,
                     psi_supported |-> TRUE, has_catchall_scope |-> TRUE,
                     dma_remapping_enabled |-> FALSE]]
    /\ iodom = [d \in IoDomains |-> NoDomain]

----------------------------------------------------------------------------
(* Processors and locks.  A processor runs one operation at a time; where  *)
(* the runs follow an operation step by step, cpu holds its position.      *)

\* the processors whose calls are followed
Cpus == { "cpu0", "cpu1" }

NoCpu == "none"

\* the root domain's spinlocks
LockNames == { "m_donated_page_lock", "m_iommu_lock" }

\* a call whose caller's view of the state before it is not followed
NoSnapshot == [taken |-> FALSE]

\* no I/O request of the builder driver is owned by the processor
NoRequest == [IoControlCode |-> "none"]

\* the locals of a request handler that was not entered
NoFrame == [entered |-> FALSE]

IdleCpu ==
    [pc |-> "idle", op |-> "none", self |-> 0, dom |-> 0, gpa |-> 0, from |-> 0,
     writes |-> << >>, calls |-> << >>, retry |-> FALSE, before |-> NoSnapshot,
     request |-> NoRequest, frame |-> NoFrame, it |-> 0, iommu |-> 0,
     catchall_iommu |-> 0]

\* no lock is held and every processor is outside the operations
SmpInit ==
    /\ locks = [l \in LockNames |-> NoCpu]
    /\ cpu = [p \in Cpus |-> IdleCpu]

\* the range find_page_range locates for page_gpa, or NoRange
NoRange == PageRange(0, 0)

found_range(map, g, gpa) ==
    IF page_already_donated(map, g, gpa)
    THEN map[g][find_page_range(map[g], gpa)]
    ELSE NoRange

\* what remove_page_from_donated_range can do: the range it locates and the
\* tracker map it leaves
remove_page_outcomes(map, g, gpa) ==
    IF g \notin DOMAIN map \/ range_set_in_order(map[g])
    THEN { [map |-> remove_page_from_donated_range(map, g, gpa),
            found |-> found_range(map, g, gpa)] }
    ELSE UNION {
           LET range == find_page_range_from(map[g], gpa, lb)
           IN { [map |-> [map EXCEPT ![g] = rs],
                 found |-> IF range = set_end(map[g]) THEN NoRange
                           ELSE map[g][range]] :
                  rs \in remove_page_from(map[g], gpa, range) } :
           lb \in lower_bounds(map[g], gpa) }

\* the tracker maps remove_page_from_donated_range can leave
remove_page_from_donated_range_results(map, g, gpa) ==
    { o.map : o \in remove_page_outcomes(map, g, gpa) }

TrackerInit ==
    /\ m_donated_page_map = EmptyMap
    /\ last = NoOp
    /\ script = NoScript
    /\ ProtoInit
    /\ SmpInit
    /\ IoInit

\* some range of the borrower covers the page
page_in_ranges(map, g, gpa) ==
    g \in DOMAIN map /\ \E i \in 1..Len(map[g]) : contains(map[g][i], gpa)

RECURSIVE pages_counted(_)

\* the pages of a range set, each counted once for every range it is in
pages_counted(rs) ==
    IF Len(rs) = 0 THEN 0 ELSE Head(rs).count + pages_counted(Tail(rs))

\* the pages some range of the set covers
pages_covered(rs) ==
    UNION { { rs[i].start + k * UV_PAGE_SIZE : k \in 0..(rs[i].count - 1) } :
              i \in 1..Len(rs) }

\* the pages of a borrower counted more than once
repeats(map, g) ==
    IF g \notin DOMAIN map THEN 0
    ELSE pages_counted(map[g]) - Cardinality(pages_covered(map[g]))

TrkInsert(g, gpa) ==
    /\ page_in_ranges(m_donated_page_map, g, gpa)
          => repeats(m_donated_page_map, g) < MaxRepeats
    /\ m_donated_page_map' \in
          add_page_to_donated_range_results(m_donated_page_map, g, gpa)
    /\ last' = [op |-> "insert", dom |-> g, gpa |-> gpa,
                fresh |-> ~page_in_ranges(m_donated_page_map, g, gpa)]
    /\ UNCHANGED << script, proto_vars, io_vars, smp_vars >>

TrkRemove(g, gpa) ==
    \E o \in remove_page_outcomes(m_donated_page_map, g, gpa) :
        /\ m_donated_page_map' = o.map
        /\ last' = [op |-> "remove", dom |-> g, gpa |-> gpa, found |-> o.found,
                    nranges |-> IF g \in DOMAIN m_donated_page_map
                                THEN Len(m_donated_page_map[g]) ELSE 0]
        /\ UNCHANGED << script, proto_vars, io_vars, smp_vars >>

TrackerNext ==
    \/ \E g \in Guests : \E gpa \in TrackerPages(g) : TrkInsert(g, gpa)
    \/ \E g \in Guests : \E gpa \in TrackerPages(g) : TrkRemove(g, gpa)

SpecTracker == TrackerInit /\ [][TrackerNext]_vars

----------------------------------------------------------------------------
(* Removals from one range: the tracker starts with one borrower holding   *)
(* a single range of up to MaxCount pages, as that many inserts of         *)
(* consecutive pages leave it, and pages are removed one after another.    *)

RangePages == { i * UV_PAGE_SIZE : i \in 1..(MaxCount + 1) }

RangeInit ==
    /\ \E p \in RangePages, n \in 1..MaxCount :
          /\ p + (n - 1) * UV_PAGE_SIZE \in RangePages
          /\ m_donated_page_map = [d \in {1} |-> << PageRange(p, n) >>]
    /\ last = NoOp
    /\ script = NoScript
    /\ ProtoInit
    /\ SmpInit
    /\ IoInit

RangeNext == \E gpa \in RangePages : TrkRemove(1, gpa)

SpecRange == RangeInit /\ [][RangeNext]_vars

----------------------------------------------------------------------------
(* A scripted run: three consecutive pages base, base+1, base+2 are        *)
(* inserted for one borrower, starting from an empty tracker, in an order  *)
(* chosen initially.                                                       *)

Perms3(a, b, c) ==
    { << a, b, c >>, << a, c, b >>, << b, a, c >>,
      << b, c, a >>, << c, a, b >>, << c, b, a >> }

\* the pages a script of three consecutive pages begins at
ScriptBases == { k * UV_PAGE_SIZE : k \in 1..(MaxPages - 1) }

ScriptInit ==
    /\ m_donated_page_map = EmptyMap
    /\ last = NoOp
    /\ ProtoInit
    /\ SmpInit
    /\ IoInit
    /\ \E g \in Guests, p \in ScriptBases :
          \E o \in Perms3(p, p + UV_PAGE_SIZE, p + 2 * UV_PAGE_SIZE) :
             script = [dom |-> g, base |-> p, todo |-> o]

ScriptInsert ==
    /\ script.todo # << >>
    /\ m_donated_page_map' =
          add_page_to_donated_range(m_donated_page_map, script.dom, Head(script.todo))
    /\ last' = [op |-> "insert", dom |-> script.dom, gpa |-> Head(script.todo)]
    /\ script' = [script EXCEPT !.todo = Tail(@)]
    /\ UNCHANGED << proto_vars, io_vars, smp_vars >>

ScriptNext == ScriptInsert

SpecScript == ScriptInit /\ [][ScriptNext]_vars

----------------------------------------------------------------------------
(* The donate / reclaim protocol: result codes, the collaborators of the   *)
(* handlers and the order of the handlers' statements.  What a             *)
(* collaborator does is an input of the step that calls it: fault names    *)
(* the step that raises an exception ("none": it does not), or is "busy"   *)
(* when a shootdown of another origin is in flight at begin_shootdown.     *)

SUCCESS == "SUCCESS"

FAILURE == "FAILURE"

AGAIN == "AGAIN"

\* a contract violation (expects) that no handler catches
FAIL_FAST == "fail_fast"

Faults ==
    { "none", "busy", "resolver", "mismatch", "convert", "unmap", "end_shootdown", "invept" }

\* vcpu::gpa_to_hpa(gpa) on the root's map succeeds iff the page is present
gpa_to_hpa_throws(ept, gpa, fault) == ~ept[gpa].present \/ fault = "resolver"

\* expects(hpa == root_gpa_4k) fails: the page is not identity-mapped, or
\* the resolver answers another address
identity_violated(ept, gpa, fault) == ept[gpa].hpa # gpa \/ fault = "mismatch"

\* root->begin_shootdown(IPI_CODE_SHOOTDOWN_TLB) returns AGAIN while a
\* shootdown is in flight
begin_shootdown(infl, fault) == IF fault = "busy" \/ infl THEN AGAIN ELSE SUCCESS

\* expects(this->id() == 0) at the top of donate_root_page: the statement
\* the call goes on with, or the contract violation
donate_root_page_enter(self) ==
    IF self # ROOT_DOMID THEN FAIL_FAST ELSE "d_check"

\* donate_root_page that never asks whether the page is already donated
donate_root_page_branch_always(donated) == "d_resolve"

\* if (!this->page_already_donated(guest_dom->id(), root_gpa_4k)): the
\* revocation block, or straight to the guest mapping
donate_root_page_branch(donated) ==
    IF donated THEN "d_map" ELSE "d_resolve"

\* a revocation block that demotes the 2M mapping before it asks for the
\* shootdown
donate_root_page_next_demote_first(pc) ==
    CASE pc = "d_resolve" -> "d_demote"
      [] pc = "d_demote" -> "d_begin"
      [] pc = "d_begin" -> "d_unmap"
      [] pc = "d_unmap" -> "d_end"
      [] pc = "d_end" -> "d_invept"
      [] pc = "d_invept" -> "d_add"
      [] pc = "d_add" -> "d_map"
      [] OTHER -> "idle"

\* a revocation block that unmaps the page before it asks for the shootdown
donate_root_page_next_unmap_first(pc) ==
    CASE pc = "d_resolve" -> "d_unmap"
      [] pc = "d_unmap" -> "d_begin"
      [] pc = "d_begin" -> "d_demote"
      [] pc = "d_demote" -> "d_end"
      [] pc = "d_end" -> "d_invept"
      [] pc = "d_invept" -> "d_add"
      [] pc = "d_add" -> "d_map"
      [] OTHER -> "idle"

\* a revocation block that records the donation right after the unmap,
\* before the shootdown has ended and the translation cache is invalidated
donate_root_page_next_record_early(pc) ==
    CASE pc = "d_resolve" -> "d_begin"
      [] pc = "d_begin" -> "d_demote"
      [] pc = "d_demote" -> "d_unmap"
      [] pc = "d_unmap" -> "d_add"
      [] pc = "d_add" -> "d_end"
      [] pc = "d_end" -> "d_invept"
      [] pc = "d_invept" -> "d_map"
      [] OTHER -> "idle"

\* a revocation block that unmaps without demoting the 2M mapping
donate_root_page_next_nodemote(pc) ==
    CASE pc = "d_resolve" -> "d_begin"
      [] pc = "d_begin" -> "d_unmap"
      [] pc = "d_unmap" -> "d_end"
      [] pc = "d_end" -> "d_invept"
      [] pc = "d_invept" -> "d_add"
      [] pc = "d_add" -> "d_map"
      [] OTHER -> "idle"

\* the statement of donate_root_page that follows statement pc when pc
\* neither returns nor throws: gpa_to_hpa, begin_shootdown, the demotion,
\* unmap, end_shootdown, invept, add_page_to_donated_range and then the
\* guest mapping
donate_root_page_next(pc) ==
    CASE pc = "d_resolve" -> "d_begin"
      [] pc = "d_begin" -> "d_demote"
      [] pc = "d_demote" -> "d_unmap"
      [] pc = "d_unmap" -> "d_end"
      [] pc = "d_end" -> "d_invept"
      [] pc = "d_invept" -> "d_add"
      [] pc = "d_add" -> "d_map"
      [] OTHER -> "idle"

\* the two checks at the top of reclaim_root_page: on the root only, and
\* only for a guest get_domain no longer finds
reclaim_root_page_enter(self, live, guest_domid) ==
    IF self # ROOT_DOMID THEN FAILURE
    ELSE IF guest_domid \in live THEN FAILURE
    ELSE "d_check"

\* reclaim_root_page that goes on whatever the tracker answers
reclaim_root_page_branch_remap(donated) == "r_remove"

\* reclaim_root_page that forgets the tracker
reclaim_root_page_branch_keep(donated) ==
    IF donated THEN "r_map" ELSE FAILURE

\* if (!this->page_already_donated(guest_domid, root_gpa_4k)) return
\* FAILURE; otherwise remove_page_from_donated_range and then map_4k_rwe
reclaim_root_page_branch(donated) ==
    IF donated THEN "r_remove" ELSE FAILURE

\* reclaim_root_pages without the check that the guest is gone
reclaim_root_pages_enter_live(self, live, guest_domid) ==
    IF self # ROOT_DOMID THEN FAILURE ELSE "rs_acquire"

\* the two checks at the top of reclaim_root_pages
reclaim_root_pages_enter(self, live, guest_domid) ==
    IF self # ROOT_DOMID THEN FAILURE
    ELSE IF guest_domid \in live THEN FAILURE
    ELSE "rs_acquire"

\* m_donated_page_map.find(guest_domid) of reclaim_root_pages
reclaim_root_pages_find(map, guest_domid) ==
    IF guest_domid \notin DOMAIN map THEN FAILURE ELSE "rs_map"

\* an erase that empties the borrower's set and keeps its entry
tracker_erase_keep_entry(map, guest_domid) ==
    [map EXCEPT ![guest_domid] = << >>]

\* m_donated_page_map.erase(itr) of reclaim_root_pages
tracker_erase(map, guest_domid) ==
    [d \in (DOMAIN map) \ {guest_domid} |-> map[d]]

\* addresses handed to the handlers: the page addresses and one address
\* inside a page
RootGpas == RootPages \cup { UV_PAGE_SIZE + 8 }

\* the addresses offered for donation to guest g: any address for guest 1,
\* the addresses of the shared page for the other guests
DonateGpas(g) == { a \in RootGpas : upper(a, PT_FROM) \in TrackerPages(g) }

\* the pages of the ranges of a range set, in iteration order
RECURSIVE pages_of(_)
pages_of(rs) ==
    IF rs = << >> THEN << >>
    ELSE [k \in 1..Head(rs).count |-> Head(rs).start + (k - 1) * UV_PAGE_SIZE]
         \o pages_of(Tail(rs))

\* map_4k_rwe(gpa, gpa) for each page of the sequence, in order
RECURSIVE map_pages_rwe(_, _)
map_pages_rwe(ept, ps) ==
    IF ps = << >> THEN ept
    ELSE map_pages_rwe(map_4k_rwe(ept, Head(ps), Head(ps)), Tail(ps))

\* the guest domain is destroyed: get_domain no longer finds it and its
\* map is gone
DestroyDomain(g) ==
    /\ g \in domains
    /\ domains' = domains \ {g}
    /\ guest_ept' = [guest_ept EXCEPT ![g] = NoGuestMap]
    /\ xen_pages' = [xen_pages EXCEPT ![g] = NoGuestMap]
    /\ last' = [op |-> "destroy", self |-> g, dom |-> g, gpa |-> 0,
                rc |-> SUCCESS, calls |-> << >>]
    /\ UNCHANGED << m_donated_page_map, root_ept, in_flight, script, io_vars, smp_vars >>

Init ==
    /\ m_donated_page_map = EmptyMap
    /\ last = NoOp
    /\ script = NoScript
    /\ ProtoInit
    /\ SmpInit
    /\ IoInit

----------------------------------------------------------------------------
(* The tracker under its lock.  The processors call the tracker's          *)
(* operations; a call is followed from the acquisition of the lock through *)
(* each write to the tracker to the release, which comes with the last     *)
(* step.  The first borrower, which is offered every page, stays; the      *)
(* second borrower can go, and reclaim_root_pages is called for a borrower *)
(* that is gone.                                                           *)

LockPages == { i * UV_PAGE_SIZE : i \in 1..MaxLockPages }

LockPagesOf(g) == IF g = 1 THEN LockPages ELSE SharedPages

\* the borrowers of these runs
LockGuests == { g \in Guests : g <= 2 }

\* the borrower that is destroyed in these runs
LockLeavers == { g \in LockGuests : g = 2 }

QueryFns == { "page_already_donated", "page_already_donated_any",
              "donated_pages_to_guest" }

NoLock == "no lock"

\* a tracker in which donated_pages_to_guest reads without the lock
tracker_lock_count_unlocked(fn) ==
    IF fn = "donated_pages_to_guest" THEN NoLock ELSE "m_donated_page_lock"

\* the lock a tracker operation acquires before it touches the tracker
tracker_lock(fn) == "m_donated_page_lock"

\* spin_acquire(&lock) returns on processor p: the lock was free
spin_acquire(held, lock, p) ==
    IF lock = NoLock THEN held ELSE [held EXCEPT ![lock] = p]

\* the gsl::finally of the operation runs spin_release(&lock)
spin_release(held, lock, p) ==
    IF lock = NoLock THEN held ELSE [held EXCEPT ![lock] = NoCpu]

\* the tracker after each write of add_page_to_donated_range, in order: the
\* entry of a new borrower is created empty and then filled; a range
\* extended downwards gets its start and then its count
add_page_writes(map, guest_domid, page_gpa) ==
    LET full == add_page_to_donated_range(map, guest_domid, page_gpa)
    IN IF guest_domid \notin DOMAIN map
       THEN << [d \in (DOMAIN map) \cup {guest_domid} |->
                   IF d = guest_domid THEN << >> ELSE map[d]],
               full >>
       ELSE LET rs == map[guest_domid]
                range == lower_bound(rs, page_gpa)
            IN IF /\ Len(rs) # 0
                  /\ range # set_end(rs)
                  /\ contiguous_above(rs[range], page_gpa)
               THEN << [map EXCEPT ![guest_domid] =
                          set_assign(rs, range,
                                     PageRange(rs[range].start - UV_PAGE_SIZE,
                                               rs[range].count))],
                       full >>
               ELSE << full >>

\* the tracker after each write of remove_page_from_donated_range: a split
\* erases the range, emplaces the upper part and then the lower part; a
\* range shrunk from below gets its start and then its count
remove_page_writes(map, guest_domid, page_gpa) ==
    IF guest_domid \notin DOMAIN map THEN << >>
    ELSE LET rs == map[guest_domid]
             range == find_page_range(rs, page_gpa)
             full == remove_page_from_donated_range(map, guest_domid, page_gpa)
             put(x) == [map EXCEPT ![guest_domid] = x]
         IN IF range = set_end(rs) THEN << >>
            ELSE LET r == rs[range]
                     upper_start == page_gpa + UV_PAGE_SIZE
                     upper_count == (limit(r) - upper_start) \div Pow2(UV_PAGE_FROM)
                     erased == set_erase(rs, range)
                 IN IF top_page(r, page_gpa) THEN << full >>
                    ELSE IF middle_page(r, page_gpa)
                    THEN << put(erased),
                            put(set_emplace(erased, upper_start, upper_count)),
                            full >>
                    ELSE IF bottom_page(r, page_gpa)
                    THEN (IF r.count = 1 THEN << full >>
                          ELSE << put(set_assign(rs, range,
                                          PageRange(r.start + UV_PAGE_SIZE, r.count))),
                                  full >>)
                    ELSE << >>

\* the tracker after each step of reclaim_root_pages under the lock: the
\* loop that maps the borrower's pages back, which leaves the tracker as it
\* is, and the erase of the entry
reclaim_root_pages_writes(map, guest_domid) ==
    IF guest_domid \notin DOMAIN map THEN << >>
    ELSE << map, [d \in (DOMAIN map) \ {guest_domid} |-> map[d]] >>

tracker_writes(fn, map, guest_domid, page_gpa) ==
    IF fn = "add_page_to_donated_range"
    THEN add_page_writes(map, guest_domid, page_gpa)
    ELSE IF fn = "remove_page_from_donated_range"
    THEN remove_page_writes(map, guest_domid, page_gpa)
    ELSE IF fn = "reclaim_root_pages"
    THEN reclaim_root_pages_writes(map, guest_domid)
    ELSE << >>

\* the writes of add_page_to_donated_range to a range set that is not
\* empty, from the position its lower_bound stopped at: a range extended
\* downwards gets its start and then its count, every other path is one
\* write
add_page_writes_from(rs, page_gpa, range) ==
    IF range # set_end(rs) /\ contiguous_above(rs[range], page_gpa)
    THEN { << set_assign(rs, range, PageRange(rs[range].start - UV_PAGE_SIZE,
                                              rs[range].count)),
              extend_page_range_below(rs, range) >> }
    ELSE { << x >> : x \in add_page_from(rs, page_gpa, range) }

\* the writes of remove_page_from_donated_range to a range set, from the
\* range its find_page_range located: a split erases the range, emplaces
\* the upper part and then the lower part; a range shrunk from below gets
\* its start and then its count
remove_page_writes_from(rs, page_gpa, range) ==
    IF range = set_end(rs) THEN { << >> }
    ELSE LET r == rs[range]
             upper_start == page_gpa + UV_PAGE_SIZE
             upper_count == (limit(r) - upper_start) \div Pow2(UV_PAGE_FROM)
             lower_count == (page_gpa - r.start) \div Pow2(UV_PAGE_FROM)
             erased == set_erase(rs, range)
         IN IF top_page(r, page_gpa)
            THEN { << x >> : x \in remove_page_from(rs, page_gpa, range) }
            ELSE IF middle_page(r, page_gpa)
            THEN UNION { { << erased, upper_part, lower_part >> :
                             lower_part \in set_emplaces(upper_part, r.start, lower_count) } :
                           upper_part \in set_emplaces(erased, upper_start, upper_count) }
            ELSE IF bottom_page(r, page_gpa)
            THEN (IF r.count = 1 THEN { << erased >> }
                  ELSE { << set_assign(rs, range,
                                       PageRange(r.start + UV_PAGE_SIZE, r.count)),
                            set_assign(rs, range,
                                       PageRange(r.start + UV_PAGE_SIZE,
                                                 r.count - 1)) >> })
            ELSE { << >> }

\* the trackers a sequence of writes to the range set of one borrower
\* passes through
writes_to(map, guest_domid, ws) ==
    [k \in 1..Len(ws) |-> [map EXCEPT ![guest_domid] = ws[k]]]

\* the write sequences a tracker operation can make: the writes above on a
\* set whose ranges are in order; on a set out of order, the writes from
\* each position the search can stop at
tracker_writes_results(fn, map, guest_domid, page_gpa) ==
    IF guest_domid \notin DOMAIN map \/ fn = "reclaim_root_pages"
    THEN { tracker_writes(fn, map, guest_domid, page_gpa) }
    ELSE IF range_set_in_order(map[guest_domid])
    THEN { tracker_writes(fn, map, guest_domid, page_gpa) }
    ELSE LET rs == map[guest_domid]
         IN IF fn = "add_page_to_donated_range"
            THEN UNION { { writes_to(map, guest_domid, ws) :
                             ws \in add_page_writes_from(rs, page_gpa, range) } :
                           range \in lower_bounds(rs, page_gpa) }
            ELSE IF fn = "remove_page_from_donated_range"
            THEN UNION { { writes_to(map, guest_domid, ws) :
                             ws \in remove_page_writes_from(
                                        rs, page_gpa,
                                        find_page_range_from(rs, page_gpa, range)) } :
                           range \in lower_bounds(rs, page_gpa) }
            ELSE { << >> }

\* the answers page_already_donated(page_gpa) can give: the set of each
\* borrower is searched in turn
page_already_donated_any_results(map, page_gpa) ==
    { \E d \in DOMAIN map : found[d] :
        found \in { f \in [DOMAIN map -> BOOLEAN] :
                      \A d \in DOMAIN map :
                          f[d] \in page_already_donated_results(map, d, page_gpa) } }

\* a function that returns no value
Void == "void"

\* what a finished tracker operation can return: the answer of a query,
\* which on a set out of order is any answer its search can give; FAILURE
\* from reclaim_root_pages for a borrower without an entry and SUCCESS
\* otherwise; nothing from an insert or a remove
tracker_results(fn, map, guest_domid, page_gpa) ==
    IF fn = "page_already_donated"
    THEN page_already_donated_results(map, guest_domid, page_gpa)
    ELSE IF fn = "page_already_donated_any"
    THEN page_already_donated_any_results(map, page_gpa)
    ELSE IF fn = "donated_pages_to_guest"
    THEN { donated_pages_to_guest(map, guest_domid) }
    ELSE IF fn = "reclaim_root_pages"
    THEN { IF guest_domid \in DOMAIN map THEN SUCCESS ELSE FAILURE }
    ELSE { Void }

\* the calls the processors make
LockCalls ==
    { [fn |-> fn, dom |-> g, gpa |-> gpa] :
        fn \in { "add_page_to_donated_range", "remove_page_from_donated_range",
                 "page_already_donated" },
        g \in LockGuests, gpa \in LockPages }
    \cup { [fn |-> "page_already_donated_any", dom |-> 0, gpa |-> gpa] :
             gpa \in LockPages }
    \cup { [fn |-> fn, dom |-> g, gpa |-> 0] :
             fn \in { "donated_pages_to_guest", "reclaim_root_pages" }, g \in LockGuests }

\* processor p enters a tracker operation: it has acquired the lock
LockEnter(p, fn, g, gpa) ==
    /\ cpu[p].pc = "idle"
    /\ gpa = 0 \/ g = 0 \/ gpa \in LockPagesOf(g)
    /\ (fn = "add_page_to_donated_range" /\ page_in_ranges(m_donated_page_map, g, gpa))
          => repeats(m_donated_page_map, g) < MaxRepeats
    /\ fn = "reclaim_root_pages" => g \notin domains
    /\ \E l \in { tracker_lock(fn) } :
          /\ IF l = NoLock THEN TRUE ELSE locks[l] = NoCpu
          /\ locks' = spin_acquire(locks, l, p)
    /\ \E writes \in tracker_writes_results(fn, m_donated_page_map, g, gpa) :
          cpu' = [cpu EXCEPT ![p] =
                     [IdleCpu EXCEPT !.pc = "in", !.op = fn, !.dom = g, !.gpa = gpa,
                                     !.writes = writes]]
    /\ last' = [op |-> "spin_acquire"]
    /\ UNCHANGED << page_vars, io_vars >>

\* reclaim_root_pages for a borrower get_domain() still finds returns
\* FAILURE before it touches the lock
LockReclaimLive(p, g) ==
    /\ cpu[p].pc = "idle"
    /\ g \in domains
    /\ last' = [op |-> "reclaim_root_pages", result |-> FAILURE]
    /\ UNCHANGED << page_vars, io_vars, smp_vars >>

\* the next step of the operation processor p is in: a write to the
\* tracker, the map_4k_rwe loop of reclaim_root_pages, or the read of a
\* query; the last step returns and releases the lock
LockStep(p) ==
    /\ cpu[p].pc \in { "in", "mid" }
    /\ \E c \in { cpu[p] } :
          LET final == Len(c.writes) <= 1
          IN /\ m_donated_page_map' = IF c.writes = << >> THEN m_donated_page_map
                                       ELSE Head(c.writes)
             /\ root_ept' = IF c.op = "reclaim_root_pages" /\ Len(c.writes) = 2
                             THEN map_pages_rwe(root_ept,
                                                pages_of(m_donated_page_map[c.dom]))
                             ELSE root_ept
             /\ cpu' = [cpu EXCEPT ![p] =
                           IF final THEN IdleCpu
                           ELSE [c EXCEPT !.pc = "mid", !.writes = Tail(@)]]
             /\ locks' = IF final THEN spin_release(locks, tracker_lock(c.op), p)
                          ELSE locks
             /\ IF final
                THEN \E result \in tracker_results(c.op, m_donated_page_map,
                                                   c.dom, c.gpa) :
                        last' = [op |-> c.op, result |-> result]
                ELSE last' = [op |-> c.op, result |-> "pending"]
    /\ UNCHANGED << guest_ept, xen_pages, domains, in_flight, script, io_vars >>

\* the state after the constructors: the root maps every page by an entry
\* of its 2M identity map, nothing is donated and the guests are live
LockInit ==
    /\ m_donated_page_map = EmptyMap
    /\ last = NoOp
    /\ script = NoScript
    /\ root_ept = [p \in LockPages |->
                      [present |-> TRUE, from |-> PD_FROM, hpa |-> p,
                       perm |-> "rwe", mtype |-> "wb"]]
    /\ guest_ept = [g \in Guests |-> NoGuestMap]
    /\ xen_pages = [g \in Guests |-> NoGuestMap]
    /\ domains = Guests
    /\ in_flight = FALSE
    /\ IoInit
    /\ SmpInit

LockNext ==
    \/ \E p \in Cpus, call \in LockCalls : LockEnter(p, call.fn, call.dom, call.gpa)
    \/ \E p \in Cpus : LockStep(p)
    \/ \E p \in Cpus, g \in LockLeavers : LockReclaimLive(p, g)
    \/ \E g \in LockLeavers : DestroyDomain(g)

SpecLock == LockInit /\ [][LockNext]_vars

----------------------------------------------------------------------------
(* IOMMU coordination.  assign_pci_device, add_iommu, remove_iommu and the *)
(* flushes run to completion.  prepare_iommus is followed through its loop *)
(* over m_pci_devs, one add_iommu call (one critical section of            *)
(* m_iommu_lock) per step, and through its unlocked writes of the map's    *)
(* flags and of m_dma_map_ready; map_dma is followed through its           *)
(* check-then-enable loop.  A domain has one prepare_iommus or map_dma     *)
(* call in progress at a time; the other calls are made by other           *)
(* processors and run between its steps.                                   *)

\* the state of the donation protocol, which the IOMMU operations leave alone
donation_vars == << m_donated_page_map, script, proto_vars, smp_vars >>

\* m_iommu_set.count(iommu)
iommu_set_count(set, iommu) == Cardinality({ k \in 1..Len(set) : set[k] = iommu })

\* m_iommu_set.insert(iommu): in key order, nothing when the key is present
iommu_set_insert(set, iommu) ==
    IF iommu_set_count(set, iommu) # 0 THEN set
    ELSE LET k == Cardinality({ j \in 1..Len(set) : set[j] < iommu })
         IN SubSeq(set, 1, k) \o << iommu >> \o SubSeq(set, k + 1, Len(set))

\* m_iommu_set.erase(iommu)
iommu_set_erase(set, iommu) ==
    LET Keep(x) == x # iommu
    IN SelectSeq(set, Keep)

\* add_iommu on a list, without the membership test
add_iommu_push(set, iommu) ==
    [set |-> Append(set, iommu),
     calls |-> << "spin_acquire", "insert", "spin_release" >>]

\* void domain::add_iommu(microv::iommu *iommu)
add_iommu(set, iommu) ==
    IF iommu_set_count(set, iommu) # 0
    THEN [set |-> set, calls |-> << "spin_acquire", "count", "spin_release" >>]
    ELSE [set |-> iommu_set_insert(set, iommu),
          calls |-> << "spin_acquire", "count", "insert", "spin_release" >>]

\* void domain::remove_iommu(microv::iommu *iommu)
remove_iommu(set, iommu) ==
    [set |-> iommu_set_erase(set, iommu),
     calls |-> << "spin_acquire", "erase", "spin_release" >>]

\* one pass of the loop of prepare_iommus over m_pci_devs: the locals and
\* m_iommu_set after the device's IOMMU was read and handed to add_iommu
prepare_iommus_visit(acc, iommu, hw) ==
    [coherent |-> hw[iommu].coherent_page_walk /\ acc.coherent,
     snoop_ctl |-> hw[iommu].snoop_ctl /\ acc.snoop_ctl,
     set |-> add_iommu(acc.set, iommu).set,
     calls |-> add_iommu(acc.set, iommu).calls]

\* a flush that is also made when snoop control is missing
prepare_iommus_flush_snoop(coherent, snoop_ctl) ==
    IF ~coherent \/ ~snoop_ctl THEN 1 ELSE 0

\* prepare_iommus after its loop: the number of m_ept_map.flush_tables() calls
prepare_iommus_flush(coherent, snoop_ctl) ==
    IF ~coherent THEN 1 ELSE 0

\* microv::iommu *domain::find_catchall_iommu(): 0 is nullptr
find_catchall_iommu(set, hw) ==
    IF \E k \in 1..Len(set) : hw[set[k]].has_catchall_scope
    THEN set[CHOOSE k \in 1..Len(set) :
                /\ hw[set[k]].has_catchall_scope
                /\ \A j \in 1..(k - 1) : ~hw[set[j]].has_catchall_scope]
    ELSE 0

\* a call iommu->map_bus(bus, this) (devfn is -1) or
\* iommu->map_bdf(bus, devfn, this)
MapCall(iommu, fn, bus, devfn) ==
    [iommu |-> iommu, fn |-> fn, bus |-> bus, devfn |-> devfn]

\* the devfn loop that maps the passthrough functions as well
RECURSIVE map_devfns_all(_, _, _)
map_devfns_all(catchall_iommu, bus, devfn) ==
    IF devfn >= pci_nr_devfn THEN << >>
    ELSE << MapCall(catchall_iommu, "map_bdf", bus, devfn) >>
         \o map_devfns_all(catchall_iommu, bus, devfn + 1)

\* the devfn loop of map_root_dma on a bus with a passthrough device
RECURSIVE map_devfns(_, _, _)
map_devfns(catchall_iommu, bus, devfn) ==
    IF devfn >= pci_nr_devfn THEN << >>
    ELSE (IF find_passthru_dev(pci_cfg_bdf_to_addr(bus, devfn))
          THEN << >>
          ELSE << MapCall(catchall_iommu, "map_bdf", bus, devfn) >>)
         \o map_devfns(catchall_iommu, bus, devfn + 1)

\* the bus loop of map_root_dma
RECURSIVE map_buses(_, _)
map_buses(catchall_iommu, bus) ==
    IF bus >= pci_nr_bus THEN << >>
    ELSE (IF ~pci_bus_has_passthru_dev(bus)
          THEN << MapCall(catchall_iommu, "map_bus", bus, -1) >>
          ELSE map_devfns(catchall_iommu, bus, 0))
         \o map_buses(catchall_iommu, bus + 1)

\* the loop of map_root_dma over m_pci_devs
RECURSIVE map_root_devs(_, _)
map_root_devs(devs, hw) ==
    IF devs = << >> THEN << >>
    ELSE LET pdev == Head(devs)
         IN (IF ~hw[pdev.m_iommu].has_catchall_scope
             THEN << MapCall(pdev.m_iommu, "map_bdf",
                             pci_cfg_bus(pdev.cf8), pci_cfg_devfn(pdev.cf8)) >>
             ELSE << >>)
            \o map_root_devs(Tail(devs), hw)

\* a loop over m_pci_devs that returns after its first device
map_guest_devs_first(devs) ==
    IF devs = << >> THEN << >>
    ELSE LET pdev == Head(devs)
         IN << MapCall(pdev.m_iommu, "map_bdf",
                       pci_cfg_bus(pdev.cf8), pci_cfg_devfn(pdev.cf8)) >>

\* the loop of map_guest_dma over m_pci_devs
RECURSIVE map_guest_devs(_)
map_guest_devs(devs) ==
    IF devs = << >> THEN << >>
    ELSE LET pdev == Head(devs)
         IN << MapCall(pdev.m_iommu, "map_bdf",
                       pci_cfg_bus(pdev.cf8), pci_cfg_devfn(pdev.cf8)) >>
            \o map_guest_devs(Tail(devs))

\* void domain::map_root_dma(), up to its loop over m_iommu_set: the calls
\* it makes on the IOMMUs
map_root_dma(dom, hw) ==
    map_buses(find_catchall_iommu(dom.m_iommu_set, hw), 0)
    \o map_root_devs(dom.m_pci_devs, hw)

\* void domain::map_guest_dma(), up to its loop over m_iommu_set
map_guest_dma(dom) == map_guest_devs(dom.m_pci_devs)

\* a flush that asks every IOMMU for the page range
RECURSIVE flush_iotlb_page_range_always(_, _, _, _)
flush_iotlb_page_range_always(set, hw, page_gpa, bytes) ==
    IF set = << >> THEN << >>
    ELSE << [iommu |-> Head(set), fn |-> "flush_iotlb_page_range",
             gpa |-> page_gpa, bytes |-> bytes] >>
         \o flush_iotlb_page_range_always(Tail(set), hw, page_gpa, bytes)

\* the loop of flush_iotlb_page_4k / flush_iotlb_page_2m over m_iommu_set:
\* the calls it makes on the IOMMUs
RECURSIVE flush_iotlb_page(_, _, _, _)
flush_iotlb_page(set, hw, page_gpa, bytes) ==
    IF set = << >> THEN << >>
    ELSE (IF ~hw[Head(set)].psi_supported
          THEN << [iommu |-> Head(set), fn |-> "flush_iotlb_domain",
                   gpa |-> 0, bytes |-> 0] >>
          ELSE << [iommu |-> Head(set), fn |-> "flush_iotlb_page_range",
                   gpa |-> page_gpa, bytes |-> bytes] >>)
         \o flush_iotlb_page(Tail(set), hw, page_gpa, bytes)

\* void domain::flush_iotlb_page_4k(uint64_t page_gpa)
flush_iotlb_page_4k(set, hw, page_gpa) ==
    flush_iotlb_page(set, hw, page_gpa, UV_PAGE_SIZE)

\* void domain::flush_iotlb_page_2m(uint64_t page_gpa)
flush_iotlb_page_2m(set, hw, page_gpa) ==
    flush_iotlb_page(set, hw, page_gpa, UV_PAGE_SIZE * 512)

\* the addresses the flushes are asked for
FlushGpas == { UV_PAGE_SIZE, Pow2(PD_FROM) }

IoIdle(d) == iodom[d].pc = "idle"

\* the longest m_pci_devs the runs build: as long as the passthrough list,
\* which setup_domU assigns to a guest device by device
MaxDevs == Cardinality(PassthruDevs)

\* void domain::assign_pci_device(struct pci_dev *pdev)
AssignPciDevice(d, pdev) ==
    /\ Len(iodom[d].m_pci_devs) < MaxDevs
    /\ iodom' = [iodom EXCEPT ![d].m_pci_devs = << pdev >> \o @]
    /\ last' = [op |-> "assign_pci_device", dom |-> d, cf8 |-> pdev.cf8]
    /\ UNCHANGED << iommus, donation_vars >>

AddIommu(d, iommu) ==
    /\ \E o \in { add_iommu(iodom[d].m_iommu_set, iommu) } :
          /\ iodom' = [iodom EXCEPT ![d].m_iommu_set = o.set]
          /\ last' = [op |-> "add_iommu", dom |-> d, iommu |-> iommu,
                      calls |-> o.calls]
    /\ UNCHANGED << iommus, donation_vars >>

RemoveIommu(d, iommu) ==
    /\ \E o \in { remove_iommu(iodom[d].m_iommu_set, iommu) } :
          /\ iodom' = [iodom EXCEPT ![d].m_iommu_set = o.set]
          /\ last' = [op |-> "remove_iommu", dom |-> d, iommu |-> iommu,
                      calls |-> o.calls]
    /\ UNCHANGED << iommus, donation_vars >>

\* prepare_iommus is entered: the locals are set and the loop over
\* m_pci_devs begins at the list's first element
PrepareIommus(d) ==
    /\ IoIdle(d)
    /\ iodom' = [iodom EXCEPT ![d].pc = "p_loop",
                              ![d].todo = iodom[d].m_pci_devs,
                              ![d].devs = iodom[d].m_pci_devs,
                              ![d].coherent = TRUE,
                              ![d].snoop_ctl = TRUE]
    /\ last' = [op |-> "prepare_iommus_enter", dom |-> d]
    /\ UNCHANGED << iommus, donation_vars >>

\* one pass of the loop: the capabilities of the device's IOMMU are folded
\* into the locals and this->add_iommu(iommu) runs under m_iommu_lock
PrepareVisit(d) ==
    /\ iodom[d].pc = "p_loop"
    /\ iodom[d].todo # << >>
    /\ \E o \in { prepare_iommus_visit([coherent |-> iodom[d].coherent,
                                         snoop_ctl |-> iodom[d].snoop_ctl,
                                         set |-> iodom[d].m_iommu_set],
                                        Head(iodom[d].todo).m_iommu, iommus) } :
          /\ iodom' = [iodom EXCEPT ![d].coherent = o.coherent,
                                    ![d].snoop_ctl = o.snoop_ctl,
                                    ![d].m_iommu_set = o.set,
                                    ![d].todo = Tail(@)]
          /\ last' = [op |-> "add_iommu", dom |-> d,
                      iommu |-> Head(iodom[d].todo).m_iommu, calls |-> o.calls]
    /\ UNCHANGED << iommus, donation_vars >>

\* after the loop: m_ept_map.set_iommu_coherence(coherent) and
\* m_ept_map.set_iommu_snoop_ctl(snoop_ctl), under no lock
PrepareSetFlags(d) ==
    /\ iodom[d].pc = "p_loop"
    /\ iodom[d].todo = << >>
    /\ iodom' = [iodom EXCEPT ![d].iommu_coherence = iodom[d].coherent,
                              ![d].iommu_snoop_ctl = iodom[d].snoop_ctl,
                              ![d].pc = "p_ready"]
    /\ last' = [op |-> "set_iommu_coherence", dom |-> d]
    /\ UNCHANGED << iommus, donation_vars >>

\* the flush of the tables when the walk is not coherent, the write of
\* m_dma_map_ready and the return of prepare_iommus
PrepareReturn(d) ==
    /\ iodom[d].pc = "p_ready"
    /\ iodom' = [iodom EXCEPT ![d].m_dma_map_ready = TRUE,
                              ![d].pc = "idle",
                              ![d].coherent = TRUE,
                              ![d].snoop_ctl = TRUE,
                              ![d].devs = << >>]
    /\ last' = [op |-> "prepare_iommus", dom |-> d,
                flushes |-> prepare_iommus_flush(iodom[d].coherent,
                                                 iodom[d].snoop_ctl),
                devs |-> iodom[d].devs]
    /\ UNCHANGED << iommus, donation_vars >>

\* void domain::map_dma(): the contract checks and the mapping loops
\* map_dma without the contract check on m_dma_map_ready
MapDmaUnchecked(d) ==
    /\ IoIdle(d) \/ ~iodom[d].m_dma_map_ready
    /\ IF d = ROOT_DOMID /\ find_catchall_iommu(iodom[d].m_iommu_set, iommus) = 0
       THEN /\ last' = [op |-> "map_dma", dom |-> d, rc |-> FAIL_FAST, maps |-> << >>]
            /\ UNCHANGED iodom
       ELSE /\ last' = [op |-> "map_dma", dom |-> d, rc |-> "pending",
                        maps |-> IF d = ROOT_DOMID
                                 THEN map_root_dma(iodom[d], iommus)
                                 ELSE map_guest_dma(iodom[d])]
            /\ iodom' = [iodom EXCEPT ![d].pc = "loop",
                                      ![d].todo = iodom[d].m_iommu_set]
    /\ UNCHANGED << iommus, donation_vars >>

MapDma(d) ==
    /\ IoIdle(d) \/ ~iodom[d].m_dma_map_ready
    /\ IF ~iodom[d].m_dma_map_ready
       THEN /\ last' = [op |-> "map_dma", dom |-> d, rc |-> FAIL_FAST, maps |-> << >>]
            /\ UNCHANGED iodom
       ELSE IF d = ROOT_DOMID /\ find_catchall_iommu(iodom[d].m_iommu_set, iommus) = 0
       THEN /\ last' = [op |-> "map_dma", dom |-> d, rc |-> FAIL_FAST, maps |-> << >>]
            /\ UNCHANGED iodom
       ELSE /\ last' = [op |-> "map_dma", dom |-> d, rc |-> "pending",
                        maps |-> IF d = ROOT_DOMID
                                 THEN map_root_dma(iodom[d], iommus)
                                 ELSE map_guest_dma(iodom[d])]
            /\ iodom' = [iodom EXCEPT ![d].pc = "loop",
                                      ![d].todo = iodom[d].m_iommu_set]
    /\ UNCHANGED << iommus, donation_vars >>

\* the head of the loop over m_iommu_set: the end of the loop returns from
\* map_dma, otherwise iommu->dma_remapping_enabled() is read
MapDmaLoop(d) ==
    /\ iodom[d].pc = "loop"
    /\ IF iodom[d].todo = << >>
       THEN /\ iodom' = [iodom EXCEPT ![d].pc = "idle"]
            /\ last' = [op |-> "map_dma_return", dom |-> d, rc |-> SUCCESS]
       ELSE LET iommu == Head(iodom[d].todo)
            IN /\ iodom' = IF iommus[iommu].dma_remapping_enabled
                           THEN [iodom EXCEPT ![d].todo = Tail(@)]
                           ELSE [iodom EXCEPT ![d].pc = "enable"]
               /\ last' = [op |-> "dma_remapping_enabled", dom |-> d,
                           iommu |-> iommu,
                           value |-> iommus[iommu].dma_remapping_enabled]
    /\ UNCHANGED << iommus, donation_vars >>

\* iommu->enable_dma_remapping()
MapDmaEnable(d) ==
    /\ iodom[d].pc = "enable"
    /\ LET iommu == Head(iodom[d].todo)
       IN /\ last' = [op |-> "enable_dma_remapping", dom |-> d, iommu |-> iommu,
                      was_enabled |-> iommus[iommu].dma_remapping_enabled]
          /\ iommus' = [iommus EXCEPT ![iommu].dma_remapping_enabled = TRUE]
    /\ iodom' = [iodom EXCEPT ![d].pc = "loop", ![d].todo = Tail(@)]
    /\ UNCHANGED donation_vars

FlushIotlbPage4k(d, page_gpa) ==
    /\ last' = [op |-> "flush_iotlb_page_4k", dom |-> d, gpa |-> page_gpa,
                calls |-> flush_iotlb_page_4k(iodom[d].m_iommu_set, iommus, page_gpa)]
    /\ UNCHANGED << io_vars, donation_vars >>

FlushIotlbPage2m(d, page_gpa) ==
    /\ last' = [op |-> "flush_iotlb_page_2m", dom |-> d, gpa |-> page_gpa,
                calls |-> flush_iotlb_page_2m(iodom[d].m_iommu_set, iommus, page_gpa)]
    /\ UNCHANGED << io_vars, donation_vars >>

\* the machine's IOMMUs are of the given kinds, with DMA remapping off
IommuInitOf(kinds) ==
    /\ m_donated_page_map = EmptyMap
    /\ last = NoOp
    /\ script = NoScript
    /\ ProtoInit
    /\ SmpInit
    /\ iodom = [d \in IoDomains |-> NoDomain]
    /\ \E kind \in [Iommus -> kinds] :
          iommus = [i \in Iommus |->
                       [coherent_page_walk |-> kind[i].coherent_page_walk,
                        snoop_ctl |-> kind[i].snoop_ctl,
                        psi_supported |-> kind[i].psi_supported,
                        has_catchall_scope |-> kind[i].has_catchall_scope,
                        dma_remapping_enabled |-> FALSE]]

IommuInit == IommuInitOf(IommuKinds)

\* the IOMMU set of the root, its capabilities and its flushes
IommuNext ==
    \/ \E pdev \in PassthruDevs : AssignPciDevice(ROOT_DOMID, pdev)
    \/ \E iommu \in Iommus : AddIommu(ROOT_DOMID, iommu)
    \/ \E iommu \in Iommus : RemoveIommu(ROOT_DOMID, iommu)
    \/ PrepareIommus(ROOT_DOMID)
    \/ PrepareVisit(ROOT_DOMID)
    \/ PrepareSetFlags(ROOT_DOMID)
    \/ PrepareReturn(ROOT_DOMID)
    \/ \E page_gpa \in FlushGpas : FlushIotlbPage4k(ROOT_DOMID, page_gpa)
    \/ \E page_gpa \in FlushGpas : FlushIotlbPage2m(ROOT_DOMID, page_gpa)

SpecIommu == IommuInit /\ [][IommuNext]_vars

\* the kinds that differ in the catch-all scope
DmaKinds == { k \in IommuKinds : k.snoop_ctl }

DmaInit == IommuInitOf(DmaKinds)

\* map_dma of the root and of a guest, each on its own processor; the
\* devices are assigned before prepare_iommus is called, which is called
\* once per domain; the root's set also gets IOMMUs by add_iommu, between
\* the steps of prepare_iommus as well
DmaNext ==
    \/ \E d \in IoDomains, pdev \in PassthruDevs :
          IoIdle(d) /\ ~iodom[d].m_dma_map_ready /\ AssignPciDevice(d, pdev)
    \/ \E iommu \in Iommus :
          ~iodom[ROOT_DOMID].m_dma_map_ready /\ AddIommu(ROOT_DOMID, iommu)
    \/ \E d \in IoDomains : ~iodom[d].m_dma_map_ready /\ PrepareIommus(d)
    \/ \E d \in IoDomains : PrepareVisit(d)
    \/ \E d \in IoDomains : PrepareSetFlags(d)
    \/ \E d \in IoDomains : PrepareReturn(d)
    \/ \E d \in IoDomains : MapDma(d)
    \/ \E d \in IoDomains : MapDmaLoop(d)
    \/ \E d \in IoDomains : MapDmaEnable(d)

SpecDma == DmaInit /\ [][DmaNext]_vars

----------------------------------------------------------------------------
(* The handlers statement by statement.  A processor runs one handler at a *)
(* time; cpu[p].pc names the statement it takes next, and the steps of the *)
(* processors interleave: donate_root_page and reclaim_root_page hold the  *)
(* tracker's lock only inside the tracker functions they call, and write   *)
(* the maps holding no lock.  The call that returns leaves its arguments,  *)
(* its result, the collaborators it called and the state it was entered in *)
(* (when the run remembers it) in last.                                    *)

\* page_already_donated that returns with the tracker's lock still held
page_already_donated_keep_lock(held, p) == held

\* the gsl::finally of page_already_donated(domid, gpa) on its return
page_already_donated_release(held, p) == spin_release(held, "m_donated_page_lock", p)

\* the steps from the call of begin_shootdown until end_shootdown returns
ShootdownPcs == { "d_begin", "d_demote", "d_unmap", "d_end" }

\* the lock processor p is about to spin_acquire, if any
WantedLock(p) ==
    IF cpu[p].pc \in { "d_check", "d_add", "r_remove", "rs_acquire" }
    THEN "m_donated_page_lock"
    ELSE IF cpu[p].pc = "i_acquire" THEN "m_iommu_lock"
    ELSE NoLock

SmpLast(p, op, rc) == [op |-> op, cpu |-> p, rc |-> rc]

\* a processor whose handler has returned and whose caller has not yet
\* gone on
ReturnedCpu == [IdleCpu EXCEPT !.pc = "returned"]

SmpAt(p, pc) == [cpu EXCEPT ![p].pc = pc]

\* the state a call is entered in
Snapshot ==
    [taken |-> TRUE, map |-> m_donated_page_map, ept |-> root_ept,
     guest_ept |-> guest_ept, xen_pages |-> xen_pages, in_flight |-> in_flight,
     domains |-> domains]

\* the frame of a call that was just entered
Call(op, self, g, root_gpa, retry, snap) ==
    [IdleCpu EXCEPT !.op = op, !.self = self, !.dom = g, !.gpa = root_gpa,
                    !.retry = retry, !.before = snap]

\* what the call with frame c leaves in last when it returns rc on
\* processor p
Returned(c, p, rc, fault, calls) ==
    [op |-> c.op, cpu |-> p, self |-> c.self, dom |-> c.dom, gpa |-> c.gpa,
     guest_gpa |-> 0, perm |-> "none", mtype |-> "none", fault |-> fault,
     rc |-> rc, calls |-> calls, pages |-> << >>, before |-> c.before]

\* the processor after its call returned rc: outside the handlers, or at
\* the top of donate_root_page again when its caller retries on AGAIN
AfterReturn(c, rc) ==
    IF rc = AGAIN /\ c.retry
    THEN [c EXCEPT !.pc = donate_root_page_enter(c.self), !.from = 0, !.calls = << >>]
    ELSE ReturnedCpu

\* processor p calls donate_root_page(root, root_gpa, guest g, ...) on
\* domain self
SmpDonate(p, self, g, root_gpa, retry, snap) ==
    /\ cpu[p].pc = "idle"
    /\ g \in domains
    /\ \E c \in { Call("donate", self, g, root_gpa, retry, snap) },
          pc \in { donate_root_page_enter(self) } :
          IF pc = FAIL_FAST
          THEN /\ cpu' = [cpu EXCEPT ![p] = ReturnedCpu]
               /\ last' = Returned(c, p, FAIL_FAST, "none", << >>)
          ELSE /\ cpu' = [cpu EXCEPT ![p] = [c EXCEPT !.pc = pc]]
               /\ last' = SmpLast(p, "donate_root_page", SUCCESS)
    /\ UNCHANGED << page_vars, io_vars, locks >>

\* page_already_donated: spin_acquire(&m_donated_page_lock) returns
SmpCheckAcquire(p) ==
    /\ cpu[p].pc = "d_check"
    /\ locks["m_donated_page_lock"] = NoCpu
    /\ locks' = spin_acquire(locks, "m_donated_page_lock", p)
    /\ cpu' = SmpAt(p, "d_check_in")
    /\ last' = SmpLast(p, "spin_acquire", SUCCESS)
    /\ UNCHANGED << page_vars, io_vars >>

\* page_already_donated reads the tracker and returns; the caller branches
\* on what it answers
SmpCheckRead(p) ==
    /\ cpu[p].pc = "d_check_in"
    /\ locks' = page_already_donated_release(locks, p)
    /\ \E c \in { cpu[p] } :
        \E donated \in page_already_donated_results(m_donated_page_map, c.dom,
                                                     upper(c.gpa, PT_FROM)) :
          \E pc \in { IF c.op = "reclaim" THEN reclaim_root_page_branch(donated)
                      ELSE donate_root_page_branch(donated) } :
             IF pc = FAILURE
             THEN /\ cpu' = [cpu EXCEPT ![p] = ReturnedCpu]
                  /\ last' = Returned(c, p, FAILURE, "none", c.calls)
             ELSE /\ cpu' = SmpAt(p, pc)
                  /\ last' = SmpLast(p, "page_already_donated", SUCCESS)
    /\ UNCHANGED << page_vars, io_vars >>

\* auto [hpa, from] = root->gpa_to_hpa(root_gpa_4k); expects(hpa ==
\* root_gpa_4k); an exception ends the call with FAILURE
SmpResolve(p, fault) ==
    /\ cpu[p].pc = "d_resolve"
    /\ fault \in { "none", "resolver", "mismatch" }
    /\ \E c \in { cpu[p] } :
         LET root_gpa_4k == upper(c.gpa, PT_FROM)
             calls == Append(c.calls, "gpa_to_hpa")
         IN IF gpa_to_hpa_throws(root_ept, root_gpa_4k, fault)
            THEN /\ cpu' = [cpu EXCEPT ![p] = ReturnedCpu]
                 /\ last' = Returned(c, p, FAILURE, "resolver", calls)
            ELSE IF identity_violated(root_ept, root_gpa_4k, fault)
            THEN /\ cpu' = [cpu EXCEPT ![p] = ReturnedCpu]
                 /\ last' = Returned(c, p, FAILURE, "mismatch", calls)
            ELSE /\ cpu' = [cpu EXCEPT ![p] =
                               [c EXCEPT !.pc = donate_root_page_next("d_resolve"),
                                         !.from = root_ept[root_gpa_4k].from,
                                         !.calls = calls]]
                 /\ last' = SmpLast(p, "gpa_to_hpa", SUCCESS)
    /\ UNCHANGED << page_vars, io_vars, locks >>

\* rc = root->begin_shootdown(IPI_CODE_SHOOTDOWN_TLB); if (rc == AGAIN)
\* return AGAIN
SmpBegin(p, fault) ==
    /\ cpu[p].pc = "d_begin"
    /\ fault \in { "none", "busy" }
    /\ \E c \in { cpu[p] } :
         LET calls == Append(c.calls, "begin_shootdown")
         IN IF begin_shootdown(in_flight, fault) = AGAIN
            THEN /\ cpu' = [cpu EXCEPT ![p] = AfterReturn(c, AGAIN)]
                 /\ in_flight' = in_flight
                 /\ last' = Returned(c, p, AGAIN, fault, calls)
            ELSE /\ cpu' = [cpu EXCEPT ![p] =
                               [c EXCEPT !.pc = donate_root_page_next("d_begin"),
                                         !.calls = calls]]
                 /\ in_flight' = TRUE
                 /\ last' = SmpLast(p, "begin_shootdown", SUCCESS)
    /\ UNCHANGED << m_donated_page_map, script, root_ept, guest_ept, xen_pages,
                    domains, io_vars, locks >>

\* if (from == pd::from) identity_map_convert_2m_to_4k(ept(), root_gpa_2m),
\* with the from that gpa_to_hpa returned
SmpDemote(p, fault) ==
    /\ cpu[p].pc = "d_demote"
    /\ fault \in { "none", "convert" }
    /\ \E c \in { cpu[p] } :
         LET calls == Append(c.calls, "identity_map_convert_2m_to_4k")
         IN IF c.from # PD_FROM
            THEN /\ fault = "none"
                 /\ root_ept' = root_ept
                 /\ cpu' = SmpAt(p, donate_root_page_next("d_demote"))
                 /\ last' = SmpLast(p, "no demotion", SUCCESS)
            ELSE IF fault = "convert"
            THEN /\ root_ept' = root_ept
                 /\ cpu' = [cpu EXCEPT ![p] = ReturnedCpu]
                 /\ last' = Returned(c, p, FAILURE, fault, calls)
            ELSE /\ root_ept' = identity_map_convert_2m_to_4k(
                                    root_ept, upper(c.gpa, PD_FROM))
                 /\ cpu' = [cpu EXCEPT ![p] =
                               [c EXCEPT !.pc = donate_root_page_next("d_demote"),
                                         !.calls = calls]]
                 /\ last' = SmpLast(p, "identity_map_convert_2m_to_4k", SUCCESS)
    /\ UNCHANGED << m_donated_page_map, script, guest_ept, xen_pages, domains,
                    in_flight, io_vars, locks >>

\* this->unmap(root_gpa_4k)
SmpUnmap(p, fault) ==
    /\ cpu[p].pc = "d_unmap"
    /\ fault \in { "none", "unmap" }
    /\ \E c \in { cpu[p] } :
         LET calls == Append(c.calls, "unmap")
         IN IF fault = "unmap"
            THEN /\ root_ept' = root_ept
                 /\ cpu' = [cpu EXCEPT ![p] = ReturnedCpu]
                 /\ last' = Returned(c, p, FAILURE, fault, calls)
            ELSE /\ root_ept' = ept_unmap(root_ept, upper(c.gpa, PT_FROM))
                 /\ cpu' = [cpu EXCEPT ![p] =
                               [c EXCEPT !.pc = donate_root_page_next("d_unmap"),
                                         !.calls = calls]]
                 /\ last' = SmpLast(p, "unmap", SUCCESS)
    /\ UNCHANGED << m_donated_page_map, script, guest_ept, xen_pages, domains,
                    in_flight, io_vars, locks >>

\* root->end_shootdown()
SmpEndShootdown(p, fault) ==
    /\ cpu[p].pc = "d_end"
    /\ fault \in { "none", "end_shootdown" }
    /\ \E c \in { cpu[p] } :
         LET calls == Append(c.calls, "end_shootdown")
         IN IF fault = "end_shootdown"
            THEN /\ in_flight' = in_flight
                 /\ cpu' = [cpu EXCEPT ![p] = ReturnedCpu]
                 /\ last' = Returned(c, p, FAILURE, fault, calls)
            ELSE /\ in_flight' = FALSE
                 /\ cpu' = [cpu EXCEPT ![p] =
                               [c EXCEPT !.pc = donate_root_page_next("d_end"),
                                         !.calls = calls]]
                 /\ last' = SmpLast(p, "end_shootdown", SUCCESS)
    /\ UNCHANGED << m_donated_page_map, script, root_ept, guest_ept, xen_pages,
                    domains, io_vars, locks >>

\* root->invept()
SmpInvept(p, fault) ==
    /\ cpu[p].pc = "d_invept"
    /\ fault \in { "none", "invept" }
    /\ \E c \in { cpu[p] } :
         LET calls == Append(c.calls, "invept")
         IN IF fault = "invept"
            THEN /\ cpu' = [cpu EXCEPT ![p] = ReturnedCpu]
                 /\ last' = Returned(c, p, FAILURE, fault, calls)
            ELSE /\ cpu' = [cpu EXCEPT ![p] =
                               [c EXCEPT !.pc = donate_root_page_next("d_invept"),
                                         !.calls = calls]]
                 /\ last' = SmpLast(p, "invept", SUCCESS)
    /\ UNCHANGED << page_vars, io_vars, locks >>

\* add_page_to_donated_range: spin_acquire(&m_donated_page_lock) returns
SmpAddAcquire(p) ==
    /\ cpu[p].pc = "d_add"
    /\ locks["m_donated_page_lock"] = NoCpu
    /\ locks' = spin_acquire(locks, "m_donated_page_lock", p)
    /\ cpu' = SmpAt(p, "d_add_in")
    /\ last' = SmpLast(p, "spin_acquire", SUCCESS)
    /\ UNCHANGED << page_vars, io_vars >>

\* the body of add_page_to_donated_range(guest_dom->id(), root_gpa_4k) and
\* its return, which releases the lock
SmpAddWrite(p) ==
    /\ cpu[p].pc = "d_add_in"
    /\ \E c \in { cpu[p] } :
         /\ m_donated_page_map' \in
               add_page_to_donated_range_results(m_donated_page_map, c.dom,
                                                 upper(c.gpa, PT_FROM))
         /\ cpu' = [cpu EXCEPT ![p] =
                       [c EXCEPT !.pc = donate_root_page_next("d_add"),
                                 !.calls = Append(c.calls,
                                                  "add_page_to_donated_range")]]
    /\ locks' = spin_release(locks, "m_donated_page_lock", p)
    /\ last' = SmpLast(p, "add_page_to_donated_range", SUCCESS)
    /\ UNCHANGED << script, proto_vars, io_vars >>

\* guest_dom->xen_dom()->add_root_page(guest_gpa, root_gpa_4k, perm, mtype)
\* for a paravirtualized guest, guest_dom->ept().map_4k(guest_gpa,
\* root_gpa_4k, perm, mtype) otherwise; return SUCCESS
SmpMapGuest(p, guest_gpa, perm, mtype) ==
    /\ cpu[p].pc = "d_map"
    /\ \E c \in { cpu[p] } :
         LET root_gpa_4k == upper(c.gpa, PT_FROM)
             entry == [present |-> TRUE, from |-> PT_FROM, hpa |-> root_gpa_4k,
                       perm |-> perm, mtype |-> mtype]
             xen == is_xen_dom(c.dom)
         IN /\ guest_ept' = IF xen THEN guest_ept
                            ELSE [guest_ept EXCEPT ![c.dom] =
                                     map_4k(@, guest_gpa, root_gpa_4k, perm, mtype)]
            /\ xen_pages' = IF xen THEN [xen_pages EXCEPT ![c.dom][guest_gpa] = entry]
                            ELSE xen_pages
            /\ last' = [Returned(c, p, SUCCESS, "none",
                                 Append(c.calls, IF xen THEN "add_root_page"
                                                 ELSE "map_4k"))
                          EXCEPT !.guest_gpa = guest_gpa, !.perm = perm,
                                 !.mtype = mtype]
    /\ cpu' = [cpu EXCEPT ![p] = ReturnedCpu]
    /\ UNCHANGED << m_donated_page_map, script, root_ept, domains, in_flight,
                    io_vars, locks >>

\* processor p calls reclaim_root_page(g, root_gpa) on domain self
SmpReclaim(p, self, g, root_gpa, snap) ==
    /\ cpu[p].pc = "idle"
    /\ \E c \in { Call("reclaim", self, g, root_gpa, FALSE, snap) },
          pc \in { reclaim_root_page_enter(self, domains, g) } :
          IF pc = FAILURE
          THEN /\ cpu' = [cpu EXCEPT ![p] = ReturnedCpu]
               /\ last' = Returned(c, p, FAILURE, "none", << >>)
          ELSE /\ cpu' = [cpu EXCEPT ![p] = [c EXCEPT !.pc = pc]]
               /\ last' = SmpLast(p, "reclaim_root_page", SUCCESS)
    /\ UNCHANGED << page_vars, io_vars, locks >>

\* remove_page_from_donated_range: spin_acquire(&m_donated_page_lock)
\* returns
SmpRemoveAcquire(p) ==
    /\ cpu[p].pc = "r_remove"
    /\ locks["m_donated_page_lock"] = NoCpu
    /\ locks' = spin_acquire(locks, "m_donated_page_lock", p)
    /\ cpu' = SmpAt(p, "r_remove_in")
    /\ last' = SmpLast(p, "spin_acquire", SUCCESS)
    /\ UNCHANGED << page_vars, io_vars >>

\* the body of remove_page_from_donated_range(guest_domid, root_gpa_4k) and
\* its return, which releases the lock
SmpRemoveWrite(p) ==
    /\ cpu[p].pc = "r_remove_in"
    /\ m_donated_page_map' \in
          remove_page_from_donated_range_results(m_donated_page_map, cpu[p].dom,
                                                 upper(cpu[p].gpa, PT_FROM))
    /\ locks' = spin_release(locks, "m_donated_page_lock", p)
    /\ cpu' = SmpAt(p, "r_map")
    /\ last' = SmpLast(p, "remove_page_from_donated_range", SUCCESS)
    /\ UNCHANGED << script, proto_vars, io_vars >>

\* this->map_4k_rwe(root_gpa_4k, root_gpa_4k); return SUCCESS
SmpReclaimMap(p) ==
    /\ cpu[p].pc = "r_map"
    /\ root_ept' = map_4k_rwe(root_ept, upper(cpu[p].gpa, PT_FROM),
                              upper(cpu[p].gpa, PT_FROM))
    /\ cpu' = [cpu EXCEPT ![p] = ReturnedCpu]
    /\ last' = Returned(cpu[p], p, SUCCESS, "none", << >>)
    /\ UNCHANGED << m_donated_page_map, script, guest_ept, xen_pages, domains,
                    in_flight, io_vars, locks >>

\* processor p calls reclaim_root_pages(g) on domain self
SmpReclaimAll(p, self, g, snap) ==
    /\ cpu[p].pc = "idle"
    /\ \E c \in { Call("reclaim_all", self, g, 0, FALSE, snap) },
          pc \in { reclaim_root_pages_enter(self, domains, g) } :
          IF pc = FAILURE
          THEN /\ cpu' = [cpu EXCEPT ![p] = ReturnedCpu]
               /\ last' = Returned(c, p, FAILURE, "none", << >>)
          ELSE /\ cpu' = [cpu EXCEPT ![p] = [c EXCEPT !.pc = pc]]
               /\ last' = SmpLast(p, "reclaim_root_pages", SUCCESS)
    /\ UNCHANGED << page_vars, io_vars, locks >>

\* reclaim_root_pages: spin_acquire(&m_donated_page_lock) returns and the
\* borrower's entry is looked up; without an entry the call returns FAILURE
\* and the lock is released
SmpReclaimAllFind(p) ==
    /\ cpu[p].pc = "rs_acquire"
    /\ locks["m_donated_page_lock"] = NoCpu
    /\ \E c \in { cpu[p] },
          pc \in { reclaim_root_pages_find(m_donated_page_map, cpu[p].dom) } :
          IF pc = FAILURE
          THEN /\ locks' = locks
               /\ cpu' = [cpu EXCEPT ![p] = ReturnedCpu]
               /\ last' = Returned(c, p, FAILURE, "none", << >>)
          ELSE /\ locks' = spin_acquire(locks, "m_donated_page_lock", p)
               /\ cpu' = [cpu EXCEPT ![p] =
                             [c EXCEPT !.pc = pc,
                                       !.writes = pages_of(m_donated_page_map[c.dom])]]
               /\ last' = SmpLast(p, "spin_acquire", SUCCESS)
    /\ UNCHANGED << page_vars, io_vars >>

\* the loops of reclaim_root_pages: this->map_4k_rwe(gpa, gpa) for the next
\* page of the borrower's ranges
SmpReclaimAllMap(p) ==
    /\ cpu[p].pc = "rs_map"
    /\ cpu[p].writes # << >>
    /\ root_ept' = map_4k_rwe(root_ept, Head(cpu[p].writes), Head(cpu[p].writes))
    /\ cpu' = [cpu EXCEPT ![p].writes = Tail(@),
                           ![p].calls = Append(@, Head(cpu[p].writes))]
    /\ last' = SmpLast(p, "map_4k_rwe", SUCCESS)
    /\ UNCHANGED << m_donated_page_map, script, guest_ept, xen_pages, domains,
                    in_flight, io_vars, locks >>

\* m_donated_page_map.erase(itr); return SUCCESS, which releases the lock
SmpReclaimAllErase(p) ==
    /\ cpu[p].pc = "rs_map"
    /\ cpu[p].writes = << >>
    /\ m_donated_page_map' = tracker_erase(m_donated_page_map, cpu[p].dom)
    /\ locks' = spin_release(locks, "m_donated_page_lock", p)
    /\ cpu' = [cpu EXCEPT ![p] = ReturnedCpu]
    /\ last' = [Returned(cpu[p], p, SUCCESS, "none", << >>)
                  EXCEPT !.pages = cpu[p].calls]
    /\ UNCHANGED << script, proto_vars, io_vars >>

\* a virtual processor as share_root_page uses it: the domain it belongs to
\* and its registers rcx and rdx
Vcpu(domid, rcx, rdx) == [domid |-> domid, rcx |-> rcx, rdx |-> rdx]

\* vcpu::is_root_vcpu(): the virtual processor belongs to the root domain
is_root_vcpu(vcpu) == vcpu.domid = ROOT_DOMID

\* share_root_page(root, perm, mtype) on guest g: expects that the calling
\* virtual processor is one of the root; the root page it names in rcx is
\* then mapped at the guest address it names in rdx; the root keeps its
\* mapping and the tracker is not told
ShareRootPage(g, root, perm, mtype) ==
    /\ g \in domains
    /\ IF ~is_root_vcpu(root)
       THEN /\ UNCHANGED << guest_ept, xen_pages >>
            /\ last' = [op |-> "share_root_page", self |-> g, dom |-> g,
                        gpa |-> root.rcx, rc |-> FAIL_FAST, calls |-> << >>]
       ELSE IF gpa_to_hpa_throws(root_ept, root.rcx, "none")
       THEN /\ UNCHANGED << guest_ept, xen_pages >>
            /\ last' = [op |-> "share_root_page", self |-> g, dom |-> g,
                        gpa |-> root.rcx, rc |-> "exception",
                        calls |-> << "gpa_to_hpa" >>]
       ELSE LET this_gpa == root.rdx
                hpa == root_ept[root.rcx].hpa
                entry == [present |-> TRUE, from |-> PT_FROM, hpa |-> hpa,
                          perm |-> perm, mtype |-> mtype]
            IN /\ guest_ept' = IF is_xen_dom(g) THEN guest_ept
                               ELSE [guest_ept EXCEPT ![g] =
                                        map_4k(@, this_gpa, hpa, perm, mtype)]
               /\ xen_pages' = IF is_xen_dom(g)
                               THEN [xen_pages EXCEPT ![g][this_gpa] = entry]
                               ELSE xen_pages
               /\ last' = [op |-> "share_root_page", self |-> g, dom |-> g,
                           gpa |-> root.rcx, rc |-> SUCCESS,
                           calls |-> << "gpa_to_hpa",
                                        IF is_xen_dom(g) THEN "add_root_page"
                                        ELSE "map_4k" >>]
    /\ UNCHANGED << m_donated_page_map, script, root_ept, domains, in_flight,
                    io_vars, smp_vars >>

\* the caller of the handler that returned on processor p goes on
SmpReturn(p) ==
    /\ cpu[p].pc = "returned"
    /\ cpu' = [cpu EXCEPT ![p] = IdleCpu]
    /\ last' = SmpLast(p, "return", SUCCESS)
    /\ UNCHANGED << page_vars, io_vars, locks >>

\* the next statement of the donate_root_page call processor p is in (or
\* of the page_already_donated call of its reclaim_root_page), under the
\* collaborator behaviours F, with the attributes A for the guest mapping
DonateStep(p, F, A) ==
    \/ SmpCheckAcquire(p)
    \/ SmpCheckRead(p)
    \/ \E fault \in F : SmpResolve(p, fault)
    \/ \E fault \in F : SmpBegin(p, fault)
    \/ \E fault \in F : SmpDemote(p, fault)
    \/ \E fault \in F : SmpUnmap(p, fault)
    \/ \E fault \in F : SmpEndShootdown(p, fault)
    \/ \E fault \in F : SmpInvept(p, fault)
    \/ SmpAddAcquire(p)
    \/ SmpAddWrite(p)
    \/ \E guest_gpa \in GuestGpas, attr \in A :
          SmpMapGuest(p, guest_gpa, attr[1], attr[2])

\* the next statement of the reclaim_root_page call processor p is in,
\* after its page_already_donated
ReclaimStep(p) ==
    \/ SmpRemoveAcquire(p)
    \/ SmpRemoveWrite(p)
    \/ SmpReclaimMap(p)

\* the next statement of the reclaim_root_pages call processor p is in
ReclaimAllStep(p) ==
    \/ SmpReclaimAllFind(p)
    \/ SmpReclaimAllMap(p)
    \/ SmpReclaimAllErase(p)

\* no processor is inside a handler
AllIdle == \A p \in Cpus : cpu[p].pc = "idle"

(* Calls made one after the other: the first processor makes a call when   *)
(* the call before it has returned.                                        *)

\* calls on the root domain
RootNext ==
    \/ \E g \in Guests : \E root_gpa \in DonateGpas(g) :
          SmpDonate("cpu0", ROOT_DOMID, g, root_gpa, FALSE, Snapshot)
    \/ \E g \in Guests, root_gpa \in RootGpas :
          SmpReclaim("cpu0", ROOT_DOMID, g, root_gpa, Snapshot)
    \/ \E g \in Guests : SmpReclaimAll("cpu0", ROOT_DOMID, g, Snapshot)

\* the same calls on a live guest domain, which return before they read
\* their arguments: the first page stands for any address
GuestNext ==
    \/ \E self \in domains, g \in Guests :
          SmpDonate("cpu0", self, g, UV_PAGE_SIZE, FALSE, Snapshot)
    \/ \E self \in domains, g \in Guests :
          SmpReclaim("cpu0", self, g, UV_PAGE_SIZE, Snapshot)
    \/ \E self \in domains, g \in Guests :
          SmpReclaimAll("cpu0", self, g, Snapshot)

Next ==
    \/ AllIdle /\ RootNext
    \/ AllIdle /\ GuestNext
    \/ AllIdle /\ \E g \in Guests : DestroyDomain(g)
    \/ \E p \in Cpus : DonateStep(p, Faults, DonateAttrs)
    \/ \E p \in Cpus : ReclaimStep(p)
    \/ \E p \in Cpus : ReclaimAllStep(p)
    \/ \E p \in Cpus : SmpReturn(p)

Spec == Init /\ [][Next]_vars

(* The protocol on a root whose map is rewritten by the exposed mapping    *)
(* operations of the domain: map_{1g,2m,4k}_{r,rw,rwe}, the two            *)
(* memory-typed 4K forms, unmap and release.  The calls are made one after *)
(* the other.                                                              *)

\* m_ept_map.map_2m(gpa, hpa, perm, mtype): one 2M entry translates every
\* page of the 2M region; a 1G mapping that covers it is split first
map_2m(ept, gpa, hpa, perm, mtype) ==
    LET split == UNION { entry_pages(ept, q) :
                           q \in { r \in DOMAIN ept : upper(r, PD_FROM) = gpa } }
    IN [q \in DOMAIN ept |->
          IF upper(q, PD_FROM) = gpa
          THEN [present |-> TRUE, from |-> PD_FROM, hpa |-> hpa + (q - gpa),
                perm |-> perm, mtype |-> mtype]
          ELSE IF q \in split /\ ept[q].present THEN [ept[q] EXCEPT !.from = PD_FROM]
          ELSE ept[q]]

\* m_ept_map.release(gpa): the entry that translates gpa is removed
mmap_release(ept, gpa) == mmap_unmap(ept, gpa)

\* a call of one of the exposed mapping operations on the root: to is the
\* root's map after it
RootMapCall(name, gpa, hpa, to) ==
    /\ root_ept' = to
    /\ last' = [op |-> name, self |-> ROOT_DOMID, dom |-> ROOT_DOMID,
                gpa |-> gpa, hpa |-> hpa, rc |-> SUCCESS, calls |-> << >>]
    /\ UNCHANGED << m_donated_page_map, guest_ept, xen_pages, domains, in_flight,
                    script, io_vars, smp_vars >>

RootMap1gR(gpa, hpa) ==
    RootMapCall("map_1g_r", gpa, hpa, map_1g(root_ept, gpa, hpa, "r", "wb"))

RootMap2mR(gpa, hpa) ==
    RootMapCall("map_2m_r", gpa, hpa, map_2m(root_ept, gpa, hpa, "r", "wb"))

RootMap4kR(gpa, hpa) ==
    RootMapCall("map_4k_r", gpa, hpa, map_4k(root_ept, gpa, hpa, "r", "wb"))

RootMap1gRw(gpa, hpa) ==
    RootMapCall("map_1g_rw", gpa, hpa, map_1g(root_ept, gpa, hpa, "rw", "wb"))

RootMap2mRw(gpa, hpa) ==
    RootMapCall("map_2m_rw", gpa, hpa, map_2m(root_ept, gpa, hpa, "rw", "wb"))

RootMap4kRw(gpa, hpa) ==
    RootMapCall("map_4k_rw", gpa, hpa, map_4k(root_ept, gpa, hpa, "rw", "wb"))

RootMap4kRwWc(gpa, hpa) ==
    RootMapCall("map_4k_rw_wc", gpa, hpa, map_4k(root_ept, gpa, hpa, "rw", "wc"))

RootMap4kRwUc(gpa, hpa) ==
    RootMapCall("map_4k_rw_uc", gpa, hpa, map_4k(root_ept, gpa, hpa, "rw", "uc"))

RootMap1gRwe(gpa, hpa) ==
    RootMapCall("map_1g_rwe", gpa, hpa, map_1g_rwe(root_ept, gpa, hpa))

RootMap2mRwe(gpa, hpa) ==
    RootMapCall("map_2m_rwe", gpa, hpa, map_2m(root_ept, gpa, hpa, "rwe", "wb"))

RootMap4kRwe(gpa, hpa) ==
    RootMapCall("map_4k_rwe", gpa, hpa, map_4k_rwe(root_ept, gpa, hpa))

RootUnmap(gpa) ==
    RootMapCall("unmap", gpa, 0, ept_unmap(root_ept, gpa))

RootRelease(gpa) ==
    RootMapCall("release", gpa, 0, mmap_release(root_ept, gpa))

\* the host addresses a large mapping of the first region is given: the
\* identity and the next region of its size
LargeHpas(from) == { 0, Pow2(from) }

\* the page the 4K operations are called for, and the host pages it is
\* given: itself and its neighbour
MapGpas == { UV_PAGE_SIZE }

MapHpas == { UV_PAGE_SIZE, 2 * UV_PAGE_SIZE }

RootMapNext ==
    \/ \E hpa \in LargeHpas(PDPT_FROM) : RootMap1gR(0, hpa)
    \/ \E hpa \in LargeHpas(PD_FROM) : RootMap2mR(0, hpa)
    \/ \E gpa \in MapGpas, hpa \in MapHpas : RootMap4kR(gpa, hpa)
    \/ \E hpa \in LargeHpas(PDPT_FROM) : RootMap1gRw(0, hpa)
    \/ \E hpa \in LargeHpas(PD_FROM) : RootMap2mRw(0, hpa)
    \/ \E gpa \in MapGpas, hpa \in MapHpas : RootMap4kRw(gpa, hpa)
    \/ \E gpa \in MapGpas, hpa \in MapHpas : RootMap4kRwWc(gpa, hpa)
    \/ \E gpa \in MapGpas, hpa \in MapHpas : RootMap4kRwUc(gpa, hpa)
    \/ \E hpa \in LargeHpas(PDPT_FROM) : RootMap1gRwe(0, hpa)
    \/ \E hpa \in LargeHpas(PD_FROM) : RootMap2mRwe(0, hpa)
    \/ \E gpa \in MapGpas, hpa \in MapHpas : RootMap4kRwe(gpa, hpa)
    \/ \E gpa \in RootPages : RootUnmap(gpa)
    \/ \E gpa \in RootPages : RootRelease(gpa)

\* donations to the first guest, with no exception from a collaborator
LargeNext ==
    \/ AllIdle /\ \E root_gpa \in DonateGpas(1) :
                     SmpDonate("cpu0", ROOT_DOMID, 1, root_gpa, FALSE,
                               Snapshot)
    \/ AllIdle /\ RootMapNext
    \/ AllIdle /\ \E domid \in { ROOT_DOMID, 1 }, this_gpa \in GuestGpas,
                      root_gpa \in RootPages, attr \in DonateAttrs :
                     ShareRootPage(1, Vcpu(domid, root_gpa, this_gpa),
                                   attr[1], attr[2])
    \/ \E p \in Cpus : DonateStep(p, { "none" }, { << "rwe", "wb" >> })
    \/ \E p \in Cpus : SmpReturn(p)

SpecLarge == Init /\ [][LargeNext]_vars

(* The retrying caller.  A processor that wants a page donated calls       *)
(* donate_root_page and calls it again, from the top, each time it returns *)
(* AGAIN.  The calls of the processors interleave, and no shootdown other  *)
(* than those of the donations is ever in flight.                          *)

\* the collaborator behaviours of these runs: exceptions, and no shootdown
\* from outside the donations
RetryFaults == Faults \ { "busy" }

\* the pages processors donate at the same time
SmpGpas(g) == RootPages \cap TrackerPages(g)

RetryNext ==
    \/ \E p \in Cpus, g \in Guests : \E root_gpa \in SmpGpas(g) :
          SmpDonate(p, ROOT_DOMID, g, root_gpa, TRUE, NoSnapshot)
    \/ \E p \in Cpus : DonateStep(p, RetryFaults, { << "rwe", "wb" >> })
    \/ \E p \in Cpus : SmpReturn(p)

\* every processor goes on with the call it is in, and a processor that
\* spins on a lock which is released again and again gets it
RetryFairness ==
    \A p \in Cpus :
        /\ WF_vars(DonateStep(p, RetryFaults, { << "rwe", "wb" >> }))
        /\ SF_vars(SmpCheckAcquire(p))
        /\ SF_vars(SmpAddAcquire(p))

SpecRetry == Init /\ [][RetryNext]_vars /\ RetryFairness

(* donate_root_page on two processors.  Each processor donates root pages  *)
(* to the guests; the steps of the two calls interleave.  No collaborator  *)
(* raises an exception other than gpa_to_hpa on a page the root no longer  *)
(* maps.                                                                   *)

SmpNext ==
    \/ \E p \in Cpus, g \in Guests : \E root_gpa \in SmpGpas(g) :
          SmpDonate(p, ROOT_DOMID, g, root_gpa, FALSE, NoSnapshot)
    \/ \E p \in Cpus : DonateStep(p, { "none" }, { << "rwe", "wb" >> })
    \/ \E p \in Cpus : SmpReturn(p)

SpecSmp == Init /\ [][SmpNext]_vars

(* donate_root_page of the shared page, add_iommu, remove_iommu and the    *)
(* functions that iterate over m_iommu_set, on two processors, each call   *)
(* followed through its lock acquisitions, its reads and its writes.  An   *)
(* iterator of m_iommu_set is the element it stands on: 0 before begin(),  *)
(* FreedNode once that element was erased from the set.  A fault in the    *)
(* VMM stops the machine.                                                  *)

FreedNode == -1

\* no processor has faulted
Running == \A q \in Cpus : cpu[q].pc # "SIGSEGV"

\* processor p enters add_iommu(iommu) on the root
SmpAddIommu(p, iommu) ==
    /\ Running
    /\ cpu[p].pc = "idle"
    /\ cpu' = [cpu EXCEPT ![p] = [IdleCpu EXCEPT !.pc = "i_acquire",
                                     !.op = "add_iommu", !.iommu = iommu]]
    /\ last' = SmpLast(p, "add_iommu", "pending")
    /\ UNCHANGED << page_vars, io_vars, locks >>

\* processor p enters remove_iommu(iommu) on the root
SmpRemoveIommu(p, iommu) ==
    /\ Running
    /\ cpu[p].pc = "idle"
    /\ cpu' = [cpu EXCEPT ![p] = [IdleCpu EXCEPT !.pc = "i_acquire",
                                     !.op = "remove_iommu", !.iommu = iommu]]
    /\ last' = SmpLast(p, "remove_iommu", "pending")
    /\ UNCHANGED << page_vars, io_vars, locks >>

\* add_iommu, remove_iommu: spin_acquire(&this->m_iommu_lock) returns
SmpIommuAcquire(p) ==
    /\ Running
    /\ cpu[p].pc = "i_acquire"
    /\ locks["m_iommu_lock"] = NoCpu
    /\ locks' = spin_acquire(locks, "m_iommu_lock", p)
    /\ cpu' = SmpAt(p, "i_in")
    /\ last' = SmpLast(p, "spin_acquire", SUCCESS)
    /\ UNCHANGED << page_vars, io_vars >>

\* add_iommu: the membership test, the insert and the return
SmpIommuInsert(p) ==
    /\ Running
    /\ cpu[p].pc = "i_in"
    /\ cpu[p].op = "add_iommu"
    /\ iodom' = [iodom EXCEPT ![ROOT_DOMID].m_iommu_set =
                                 add_iommu(@, cpu[p].iommu).set]
    /\ locks' = spin_release(locks, "m_iommu_lock", p)
    /\ cpu' = [cpu EXCEPT ![p] = IdleCpu]
    /\ last' = SmpLast(p, "insert", SUCCESS)
    /\ UNCHANGED << page_vars, iommus >>

\* the pcs of a processor inside a loop over m_iommu_set
IterPcs == { "f_find", "f_test", "f_loop", "f_visit", "f_enable" }

\* the processors after m_iommu_set.erase(iommu): an iterator that stood on
\* the erased element now stands on a freed node
iterators_after_erase(cpus, set, iommu) ==
    [q \in DOMAIN cpus |->
        IF /\ cpus[q].pc \in IterPcs
           /\ cpus[q].it = iommu
           /\ iommu_set_count(set, iommu) # 0
        THEN [cpus[q] EXCEPT !.it = FreedNode]
        ELSE cpus[q]]

\* remove_iommu: the erase and the return
SmpIommuErase(p) ==
    /\ Running
    /\ cpu[p].pc = "i_in"
    /\ cpu[p].op = "remove_iommu"
    /\ iodom' = [iodom EXCEPT ![ROOT_DOMID].m_iommu_set =
                                 remove_iommu(@, cpu[p].iommu).set]
    /\ locks' = spin_release(locks, "m_iommu_lock", p)
    /\ cpu' = [iterators_after_erase(cpu, iodom[ROOT_DOMID].m_iommu_set,
                                     cpu[p].iommu) EXCEPT ![p] = IdleCpu]
    /\ last' = SmpLast(p, "erase", SUCCESS)
    /\ UNCHANGED << page_vars, iommus >>

\* the functions of domain that iterate over m_iommu_set
IterFns == { "find_catchall_iommu", "map_root_dma", "map_guest_dma", "flush_iotlb",
             "flush_iotlb_page_4k", "flush_iotlb_page_2m" }

\* the lock a function acquires before it touches m_iommu_set: add_iommu
\* and remove_iommu take m_iommu_lock, the iterating functions take none
iommu_set_lock(fn) ==
    IF fn \in { "add_iommu", "remove_iommu" } THEN "m_iommu_lock" ELSE NoLock

\* where a function that iterates over m_iommu_set begins: map_root_dma
\* with the loop of find_catchall_iommu, map_guest_dma with its loop over
\* m_pci_devs, a flush with its loop over the set
iterate_begin(fn) ==
    IF fn \in { "find_catchall_iommu", "map_root_dma" } THEN "f_find"
    ELSE IF fn = "map_guest_dma" THEN "f_map"
    ELSE "f_loop"

IterAt(at, iommu) == [at |-> at, iommu |-> iommu]

\* where the iterator of a range-for over m_iommu_set goes from the element
\* it stands on: to the first element from before begin(); to the element
\* that follows in the set as it is now, one linked in behind the iterator
\* in the meantime included; to end().  The increment of an iterator that
\* stands on a freed node reads that node: the read faults, or finds what
\* was left in the node or written there since, which leads to end() or to
\* the node of any IOMMU, one that was erased from the set included
iterator_next(it, set) ==
    LET elems == { set[k] : k \in 1..Len(set) }
        after == { i \in elems : i > it }
    IN IF it = FreedNode
       THEN { IterAt("SIGSEGV", 0), IterAt("end", 0) }
            \cup { IterAt("element", i) : i \in Iommus }
       ELSE IF after = {} THEN { IterAt("end", 0) }
       ELSE { IterAt("element", CHOOSE i \in after : \A j \in after : i <= j) }

\* the node the iterator stands on after it moved to the node of iommu: a
\* node of the set, or the freed node of an IOMMU that is not in the set
iterator_at(iommu, set) ==
    IF iommu_set_count(set, iommu) # 0 THEN iommu ELSE FreedNode

\* m_iommu_set.end(): the node past every element
EndNode == MaxIommus + 1

\* where the iterator stands after begin() or ++it came to n
iterator_moved(n, set) ==
    IF n.at = "end" THEN EndNode ELSE iterator_at(n.iommu, set)

\* *it: the element of the node the iterator stands on.  The read of a
\* freed node faults or gives what the node holds: the IOMMU that was
\* erased, or what was written there since
iterator_deref(it) ==
    IF it = FreedNode
    THEN { IterAt("SIGSEGV", 0) } \cup { IterAt("element", i) : i \in Iommus }
    ELSE { IterAt("element", it) }

\* processor p enters a function that iterates over the root's m_iommu_set
SmpIterate(p, fn, page_gpa) ==
    /\ Running
    /\ cpu[p].pc = "idle"
    /\ \E l \in { iommu_set_lock(fn) } :
          /\ IF l = NoLock THEN TRUE ELSE locks[l] = NoCpu
          /\ locks' = spin_acquire(locks, l, p)
    /\ cpu' = [cpu EXCEPT ![p] = [IdleCpu EXCEPT !.pc = iterate_begin(fn),
                                     !.op = fn, !.gpa = page_gpa]]
    /\ last' = SmpLast(p, fn, "pending")
    /\ UNCHANGED << page_vars, io_vars >>

\* the read of a freed node faulted
IterateFault(p) ==
    /\ cpu' = SmpAt(p, "SIGSEGV")
    /\ last' = SmpLast(p, cpu[p].op, "SIGSEGV")
    /\ UNCHANGED << locks, io_vars >>

\* the function processor p is in returns
IterateReturn(p, rc, iommu) ==
    /\ cpu' = [cpu EXCEPT ![p] = IdleCpu]
    /\ locks' = spin_release(locks, iommu_set_lock(cpu[p].op), p)
    /\ last' = [op |-> cpu[p].op, cpu |-> p, rc |-> rc, iommu |-> iommu]
    /\ UNCHANGED io_vars

\* the loop of find_catchall_iommu: begin() or ++it; the iterator moves on
\* in the set as it is now
SmpFindStep(p) ==
    /\ Running
    /\ cpu[p].pc = "f_find"
    /\ \E n \in iterator_next(cpu[p].it, iodom[ROOT_DOMID].m_iommu_set) :
          IF n.at = "SIGSEGV" THEN IterateFault(p)
          ELSE /\ cpu' = [cpu EXCEPT
                             ![p].pc = "f_test",
                             ![p].it = iterator_moved(n, iodom[ROOT_DOMID].m_iommu_set)]
               /\ last' = [op |-> "iterator", cpu |-> p, rc |-> "pending",
                           iommu |-> n.iommu]
               /\ UNCHANGED << locks, io_vars >>
    /\ UNCHANGED page_vars

\* the loop of find_catchall_iommu: it != end(), *it and
\* has_catchall_scope() of the element, which may have been erased since the
\* iterator came to it; the function returns the first catch-all IOMMU from
\* inside the loop, nullptr after the loop.  In map_root_dma the expects on
\* its result follows, and fails on nullptr
SmpFindTest(p) ==
    /\ Running
    /\ cpu[p].pc = "f_test"
    /\ IF cpu[p].it = EndNode
       THEN IterateReturn(p, IF cpu[p].op = "map_root_dma" THEN FAIL_FAST
                             ELSE SUCCESS, 0)
       ELSE \E n \in iterator_deref(cpu[p].it) :
          IF n.at = "SIGSEGV" THEN IterateFault(p)
          ELSE IF ~iommus[n.iommu].has_catchall_scope
          THEN /\ cpu' = [cpu EXCEPT ![p].pc = "f_find", ![p].iommu = n.iommu]
               /\ last' = [op |-> "has_catchall_scope", cpu |-> p, rc |-> "pending",
                           iommu |-> n.iommu]
               /\ UNCHANGED << locks, io_vars >>
          ELSE IF cpu[p].op = "map_root_dma"
          THEN /\ cpu' = [cpu EXCEPT ![p].pc = "f_map", ![p].it = 0,
                                     ![p].iommu = n.iommu,
                                     ![p].catchall_iommu = n.iommu]
               /\ last' = [op |-> "has_catchall_scope", cpu |-> p, rc |-> "pending",
                           iommu |-> n.iommu]
               /\ UNCHANGED << locks, io_vars >>
          ELSE IterateReturn(p, SUCCESS, n.iommu)
    /\ UNCHANGED page_vars

\* map_root_dma between its two loops over m_iommu_set, map_guest_dma
\* before its loop: the map_bus and map_bdf calls on the IOMMUs
SmpIterateMap(p) ==
    /\ Running
    /\ cpu[p].pc = "f_map"
    /\ cpu' = [cpu EXCEPT ![p].pc = "f_loop", ![p].it = 0]
    /\ last' = [op |-> "map", cpu |-> p, rc |-> "pending",
                maps |-> IF cpu[p].op = "map_root_dma"
                         THEN map_buses(cpu[p].catchall_iommu, 0)
                              \o map_root_devs(iodom[ROOT_DOMID].m_pci_devs, iommus)
                         ELSE map_guest_devs(iodom[ROOT_DOMID].m_pci_devs)]
    /\ UNCHANGED << page_vars, io_vars, locks >>

\* the call a flush makes on the IOMMU its loop stands on
flush_call(fn, iommu, hw, page_gpa) ==
    IF fn = "flush_iotlb"
    THEN [iommu |-> iommu, fn |-> "flush_iotlb_domain", gpa |-> 0, bytes |-> 0]
    ELSE IF fn = "flush_iotlb_page_4k"
    THEN flush_iotlb_page_4k(<< iommu >>, hw, page_gpa)[1]
    ELSE flush_iotlb_page_2m(<< iommu >>, hw, page_gpa)[1]

\* the loop over m_iommu_set of a flush, of map_root_dma and of
\* map_guest_dma: begin() or ++it; the iterator moves on in the set as it
\* is now
SmpIterateStep(p) ==
    /\ Running
    /\ cpu[p].pc = "f_loop"
    /\ \E n \in iterator_next(cpu[p].it, iodom[ROOT_DOMID].m_iommu_set) :
          IF n.at = "SIGSEGV" THEN IterateFault(p)
          ELSE /\ cpu' = [cpu EXCEPT
                             ![p].pc = "f_visit",
                             ![p].it = iterator_moved(n, iodom[ROOT_DOMID].m_iommu_set)]
               /\ last' = [op |-> "iterator", cpu |-> p, rc |-> "pending",
                           iommu |-> n.iommu]
               /\ UNCHANGED << locks, io_vars >>
    /\ UNCHANGED page_vars

\* the loop over m_iommu_set of a flush, of map_root_dma and of
\* map_guest_dma: it != end(), *it and the call on the element, which may
\* have been erased since the iterator came to it: the element is flushed
\* or its dma_remapping_enabled() is read; after the loop the function
\* returns
SmpIterateVisit(p) ==
    /\ Running
    /\ cpu[p].pc = "f_visit"
    /\ IF cpu[p].it = EndNode THEN IterateReturn(p, SUCCESS, 0)
       ELSE \E n \in iterator_deref(cpu[p].it) :
          IF n.at = "SIGSEGV" THEN IterateFault(p)
          ELSE IF cpu[p].op \in { "map_root_dma", "map_guest_dma" }
          THEN /\ cpu' = [cpu EXCEPT
                             ![p].iommu = n.iommu,
                             ![p].pc = IF iommus[n.iommu].dma_remapping_enabled
                                       THEN "f_loop" ELSE "f_enable"]
               /\ last' = [op |-> "dma_remapping_enabled", cpu |-> p,
                           rc |-> "pending", iommu |-> n.iommu,
                           value |-> iommus[n.iommu].dma_remapping_enabled]
               /\ UNCHANGED << locks, io_vars >>
          ELSE /\ cpu' = [cpu EXCEPT ![p].pc = "f_loop", ![p].iommu = n.iommu]
               /\ last' = [op |-> "flush", cpu |-> p, rc |-> "pending",
                           iommu |-> n.iommu,
                           call |-> flush_call(cpu[p].op, n.iommu, iommus, cpu[p].gpa)]
               /\ UNCHANGED << locks, io_vars >>
    /\ UNCHANGED page_vars

\* iommu->enable_dma_remapping() in the loop of map_root_dma and
\* map_guest_dma
SmpIterateEnable(p) ==
    /\ Running
    /\ cpu[p].pc = "f_enable"
    /\ iommus' = [iommus EXCEPT ![cpu[p].iommu].dma_remapping_enabled = TRUE]
    /\ cpu' = SmpAt(p, "f_loop")
    /\ last' = [op |-> "enable_dma_remapping", cpu |-> p, rc |-> "pending",
                iommu |-> cpu[p].iommu,
                was_enabled |-> iommus[cpu[p].iommu].dma_remapping_enabled]
    /\ UNCHANGED << page_vars, iodom, locks >>

\* the page a flush of these runs is asked for
IterGpa(fn) ==
    IF fn = "flush_iotlb_page_4k" THEN UV_PAGE_SIZE
    ELSE IF fn = "flush_iotlb_page_2m" THEN Pow2(PD_FROM)
    ELSE 0

\* the machine's IOMMUs: one of them has the catch-all scope and supports
\* page-selective invalidation, the others have neither
IterInit ==
    /\ m_donated_page_map = EmptyMap
    /\ last = NoOp
    /\ script = NoScript
    /\ ProtoInit
    /\ SmpInit
    /\ iodom = [d \in IoDomains |-> NoDomain]
    /\ \E catchall \in Iommus :
          iommus = [i \in Iommus |->
                       [coherent_page_walk |-> TRUE, snoop_ctl |-> TRUE,
                        psi_supported |-> (i = catchall),
                        has_catchall_scope |-> (i = catchall),
                        dma_remapping_enabled |-> FALSE]]

\* the IOMMU set of the root is changed and iterated over
IterNext ==
    \/ \E p \in Cpus, iommu \in Iommus : SmpAddIommu(p, iommu)
    \/ \E p \in Cpus, iommu \in Iommus : SmpRemoveIommu(p, iommu)
    \/ \E p \in Cpus : SmpIommuAcquire(p)
    \/ \E p \in Cpus : SmpIommuInsert(p)
    \/ \E p \in Cpus : SmpIommuErase(p)
    \/ \E p \in Cpus, fn \in IterFns : SmpIterate(p, fn, IterGpa(fn))
    \/ \E p \in Cpus : SmpFindStep(p)
    \/ \E p \in Cpus : SmpFindTest(p)
    \/ \E p \in Cpus : SmpIterateMap(p)
    \/ \E p \in Cpus : SmpIterateStep(p)
    \/ \E p \in Cpus : SmpIterateVisit(p)
    \/ \E p \in Cpus : SmpIterateEnable(p)

SpecIter == IterInit /\ [][IterNext]_vars

\* donate_root_page of the shared page on two processors while the IOMMU
\* set of the root is changed
ShootdownNext ==
    \/ \E p \in Cpus, root_gpa \in SharedPages :
          SmpDonate(p, ROOT_DOMID, 1, root_gpa, FALSE, NoSnapshot)
    \/ \E p \in Cpus : DonateStep(p, { "none" }, { << "rwe", "wb" >> })
    \/ \E p \in Cpus : SmpReturn(p)
    \/ \E p \in Cpus, iommu \in Iommus : SmpAddIommu(p, iommu)
    \/ \E p \in Cpus, iommu \in Iommus : SmpRemoveIommu(p, iommu)
    \/ \E p \in Cpus : SmpIommuAcquire(p)
    \/ \E p \in Cpus : SmpIommuInsert(p)
    \/ \E p \in Cpus : SmpIommuErase(p)

SpecShootdown == Init /\ [][ShootdownNext]_vars

----------------------------------------------------------------------------
(* Donation and reclaim on two processors.  Guest 2 was given the shared   *)
(* page and was destroyed; guest 1 is alive.  The processors donate root   *)
(* pages to guest 1 and take the pages of guest 2 back, each call followed *)
(* step by step.                                                           *)

\* the state after donate_root_page(root, 0x1000, guest 2, ...) returned
\* SUCCESS and guest 2 was destroyed
ReclaimSmpInit ==
    /\ m_donated_page_map = add_page_to_donated_range(EmptyMap, 2, UV_PAGE_SIZE)
    /\ last = NoOp
    /\ script = NoScript
    /\ root_ept = ept_unmap(identity_map_convert_2m_to_4k(identity_map, 0),
                             UV_PAGE_SIZE)
    /\ guest_ept = [g \in Guests |-> NoGuestMap]
    /\ xen_pages = [g \in Guests |-> NoGuestMap]
    /\ domains = Guests \ {2}
    /\ in_flight = FALSE
    /\ IoInit
    /\ SmpInit

ReclaimSmpNext ==
    \/ \E p \in Cpus, root_gpa \in RootPages :
          SmpDonate(p, ROOT_DOMID, 1, root_gpa, FALSE, NoSnapshot)
    \/ \E p \in Cpus, root_gpa \in RootPages :
          SmpReclaim(p, ROOT_DOMID, 2, root_gpa, NoSnapshot)
    \/ \E p \in Cpus : SmpReclaimAll(p, ROOT_DOMID, 2, NoSnapshot)
    \/ \E p \in Cpus : DonateStep(p, { "none" }, { << "rwe", "wb" >> })
    \/ \E p \in Cpus : ReclaimStep(p)
    \/ \E p \in Cpus : ReclaimAllStep(p)
    \/ \E p \in Cpus : SmpReturn(p)

SpecReclaimSmp == ReclaimSmpInit /\ [][ReclaimSmpNext]_vars

----------------------------------------------------------------------------
(* The callbacks of the builder driver's queue (host driver):              *)
(* builderEvtIoDeviceControl, which handles a request, and                 *)
(* builderEvtIoStop, which the framework calls for a request the driver    *)
(* owns.  What the framework and the collaborators answer to the handler   *)
(* is an input of the request.  A                                          *)
(* pointer is a number, 0 is NULL, UserPtr is an address of the caller,    *)
(* KernelBuffer(b) the address platform_alloc_rw returns for buffer b and  *)
(* CallerBytes what the caller left in a field of the output buffer.       *)

BufNames == { "image", "initrd", "cmdl" }

BufOrder == << "image", "initrd", "cmdl" >>

UserPtr == 1

CallerBytes == 2

\* sizeof(struct create_vm_args)
sizeof_create_vm_args == 120

\* the offset of image, the first pointer of struct create_vm_args: an
\* output buffer of this length holds file_type and exec_mode only
offsetof_image == 8

\* the offset of a field of struct create_vm_args: image, image_size,
\* initrd, initrd_size, cmdl, cmdl_size follow each other, 8 bytes each
args_offset(kind, b) ==
    LET k == CHOOSE i \in 1..3 : BufOrder[i] = b
    IN offsetof_image + 16 * (k - 1) + (IF kind = "size" THEN 8 ELSE 0)

\* RtlCopyMemory(dst, src, num) between two argument structures: the
\* fields that lie within the first num bytes are copied, the others keep
\* what dst held
RtlCopyMemory(dst, src, num) ==
    [ptr |-> [b \in BufNames |-> IF args_offset("ptr", b) + 8 <= num
                                 THEN src.ptr[b] ELSE dst.ptr[b]],
     size |-> [b \in BufNames |-> IF args_offset("size", b) + 8 <= num
                                  THEN src.size[b] ELSE dst.size[b]]]

KernelBuffer(b) == IF b = "image" THEN 101 ELSE IF b = "initrd" THEN 102 ELSE 103

\* struct create_vm_args: the three buffer pointers and their sizes
CreateVmArgs ==
    { a \in [ptr : [BufNames -> { 0, UserPtr }], size : [BufNames -> { 0, 1 }]] :
        \A b \in BufNames : a.ptr[b] = 0 => a.size[b] = 0 }

\* an argument structure without buffers
NoBuffers == [ptr |-> [b \in BufNames |-> 0], size |-> [b \in BufNames |-> 0]]

\* the step of ioctl_create_vm that fails: an allocation or a copy from the
\* caller for one buffer, common_create_vm, or none
CreateFaults ==
    { [at |-> a, buf |-> b] : a \in { "alloc", "copy" }, b \in BufNames }
    \cup { [at |-> a, buf |-> "image"] : a \in { "none", "create" } }

\* an output buffer as the caller handed it over
CallerOutput ==
    [ptr |-> [b \in BufNames |-> CallerBytes], size |-> [b \in BufNames |-> CallerBytes]]

\* a statement of a callback was executed: where the callback is now and
\* what its locals hold
HandlerAt(pc, frame) == [pc |-> pc, frame |-> frame]

\* the statements of the block of ioctl_create_vm for a buffer: the test of
\* args with platform_alloc_rw, copy_from_user, and args->X = X
BlockPcs ==
    [image |-> [alloc |-> "c_image", copy |-> "c_image_copy", store |-> "c_image_store"],
     initrd |-> [alloc |-> "c_initrd", copy |-> "c_initrd_copy",
                 store |-> "c_initrd_store"],
     cmdl |-> [alloc |-> "c_cmdl", copy |-> "c_cmdl_copy", store |-> "c_cmdl_store"]]

\* the statement that follows the block of a buffer
AfterBlock == [image |-> "c_initrd", initrd |-> "c_cmdl", cmdl |-> "c_create"]

\* the block of ioctl_create_vm for buffer b, a statement at a time: the
\* buffer is allocated when args names one; copy_from_user fills it, and
\* waits for the caller's pages meanwhile; the kernel address is stored in
\* args.  A failed allocation or copy jumps to failed
create_vm_buffer(pc, st, b, fault) ==
    IF pc = BlockPcs[b].alloc
    THEN (IF st.args.ptr[b] = 0 \/ st.args.size[b] = 0 THEN HandlerAt(AfterBlock[b], st)
          ELSE IF fault = [at |-> "alloc", buf |-> b] THEN HandlerAt("c_failed", st)
          ELSE HandlerAt(BlockPcs[b].copy,
                         [st EXCEPT !.local[b] = KernelBuffer(b),
                                    !.allocs = Append(@, KernelBuffer(b))]))
    ELSE IF pc = BlockPcs[b].copy
    THEN (IF fault = [at |-> "copy", buf |-> b] THEN HandlerAt("c_failed", st)
          ELSE HandlerAt(BlockPcs[b].store, st))
    ELSE HandlerAt(AfterBlock[b], [st EXCEPT !.args.ptr[b] = st.local[b]])

\* the locals of builderEvtIoDeviceControl at its entry (in, out, in_size,
\* out_size), with what the ioctl it calls works on: the argument structure
\* in the input buffer, the locals of ioctl_create_vm (local), its return
\* value (ret, "not called" until an ioctl returned), the buffers it
\* allocated and the pointers it handed to platform_free_rw, in order; and
\* the output buffer: whether RtlCopyMemory wrote to it, what it holds, and
\* the byte count WdfRequestSetInformation gave the request (0 if not called)
EntryFrame(r) ==
    [in |-> 0, out |-> 0, in_size |-> 0, out_size |-> 0, ret |-> "not called",
     args |-> r.args, allocs |-> << >>, local |-> [b \in BufNames |-> 0],
     frees |-> << >>, copied |-> FALSE, out_args |-> CallerOutput,
     information |-> 0]

\* the buffer whose block of ioctl_create_vm the statement at pc belongs to
BlockOf(pc) ==
    CHOOSE b \in BufNames : pc \in { BlockPcs[b].alloc, BlockPcs[b].copy,
                                     BlockPcs[b].store }

\* ioctl_create_vm that leaves the pointers of args as they are on the
\* failure path
ioctl_create_vm_keep_args(pc, f, fault) ==
    LET free(ret) ==
            HandlerAt("b_copy",
                      [f EXCEPT !.frees = [k \in 1..3 |-> f.local[BufOrder[k]]],
                                !.ret = ret])
        cleared == [f EXCEPT !.args.ptr = [b \in BufNames |-> 0]]
    IN IF pc = "c_create"
       THEN HandlerAt(IF fault.at = "create" THEN "c_failed" ELSE "c_success", f)
       ELSE IF pc = "c_success" THEN HandlerAt("c_success_free", cleared)
       ELSE IF pc = "c_success_free" THEN free("BF_IOCTL_SUCCESS")
       ELSE IF pc = "c_failed" THEN HandlerAt("c_failed_free", f)
       ELSE IF pc = "c_failed_free" THEN free("BF_IOCTL_FAILURE")
       ELSE create_vm_buffer(pc, f, BlockOf(pc), fault)

\* static long ioctl_create_vm(struct create_vm_args *args), a statement at
\* a time: the three blocks that allocate, copy and store a buffer,
\* common_create_vm, and the two exits, each of which sets the three
\* pointers of args to 0, then hands the three locals to platform_free_rw
\* and returns
ioctl_create_vm(pc, f, fault) ==
    LET free(ret) ==
            HandlerAt("b_copy",
                      [f EXCEPT !.frees = [k \in 1..3 |-> f.local[BufOrder[k]]],
                                !.ret = ret])
        cleared == [f EXCEPT !.args.ptr = [b \in BufNames |-> 0]]
    IN IF pc = "c_create"
       THEN HandlerAt(IF fault.at = "create" THEN "c_failed" ELSE "c_success", f)
       ELSE IF pc = "c_success" THEN HandlerAt("c_success_free", cleared)
       ELSE IF pc = "c_success_free" THEN free("BF_IOCTL_SUCCESS")
       ELSE IF pc = "c_failed" THEN HandlerAt("c_failed_free", cleared)
       ELSE IF pc = "c_failed_free" THEN free("BF_IOCTL_FAILURE")
       ELSE create_vm_buffer(pc, f, BlockOf(pc), fault)

\* static long ioctl_destroy_vm(domainid_t *args): its return value
ioctl_destroy_vm(args, destroy_ok) ==
    IF destroy_ok THEN "BF_IOCTL_SUCCESS" ELSE "BF_IOCTL_FAILURE"

IoControlCodes == { "IOCTL_CREATE_VM", "IOCTL_DESTROY_VM", "IOCTL_OTHER" }

\* the lengths of the output buffer of a request: none, one that ends
\* before the first pointer of the argument structure, the structure's
\* size; an input buffer is absent or has the structure's size
OutputLengths == { 0, offsetof_image, sizeof_create_vm_args }

InputLengths == { 0, sizeof_create_vm_args }

\* the inputs of one request: the buffer lengths, the control code, what
\* the framework answers when it is asked for the input and for the output
\* buffer, the argument structure in the input buffer and what the
\* collaborators answer (every argument structure and every failing step it
\* leads to for a create request that reaches its ioctl, with the short
\* output buffer when every block of the ioctl runs; every combination of
\* lengths, code and framework answers for a request without buffers to
\* copy)
Requests ==
    { r \in [InputBufferLength : InputLengths \ { 0 },
             OutputBufferLength : OutputLengths \ { 0 },
             IoControlCode : { "IOCTL_CREATE_VM" }, retrieve_in : { TRUE },
             retrieve_out : { TRUE }, args : CreateVmArgs, fault : CreateFaults,
             destroy_ok : { TRUE }] :
        /\ r.fault.at \in { "alloc", "copy" } => r.args.size[r.fault.buf] # 0
        /\ r.OutputBufferLength # sizeof_create_vm_args
              => r.fault.at \in { "none", "create" } }
    \cup
    { r \in [InputBufferLength : InputLengths, OutputBufferLength : OutputLengths,
             IoControlCode : IoControlCodes, retrieve_in : BOOLEAN,
             retrieve_out : BOOLEAN, args : { NoBuffers },
             fault : { [at |-> "none", buf |-> "image"] }, destroy_ok : BOOLEAN] :
        /\ r.InputBufferLength = 0 => r.retrieve_in
        /\ r.OutputBufferLength = 0 => r.retrieve_out
        /\ r.IoControlCode # "IOCTL_DESTROY_VM" => r.destroy_ok }

\* the requests that are presented while another one is being handled: one
\* of each control code, with both buffers of the structure's size handed
\* out and no failing step
ConcurrentRequests ==
    { r \in Requests :
        /\ r.InputBufferLength = sizeof_create_vm_args
        /\ r.OutputBufferLength = sizeof_create_vm_args
        /\ r.retrieve_in /\ r.retrieve_out /\ r.destroy_ok
        /\ r.fault.at = "none"
        /\ r.args.size = IF r.IoControlCode = "IOCTL_CREATE_VM"
                         THEN [b \in BufNames |-> 1] ELSE NoBuffers.size }

\* the statements of ioctl_create_vm
CreatePcs ==
    UNION { { BlockPcs[b].alloc, BlockPcs[b].copy, BlockPcs[b].store } : b \in BufNames }
    \cup { "c_create", "c_success", "c_success_free", "c_failed", "c_failed_free" }

\* the statements of builderEvtIoDeviceControl and of the ioctl it calls
\* that precede its WdfRequestComplete
BodyPcs ==
    { "b_entry", "b_out", "b_switch", "b_copy", "d_destroy", "b_info" } \cup CreatePcs

\* the two WdfRequestComplete calls of builderEvtIoDeviceControl
CompletePcs == { "b_success", "b_denied" }

\* VOID builderEvtIoDeviceControl(Queue, Request, OutputBufferLength,
\* InputBufferLength, IoControlCode), a statement at a time, from its entry
\* to the WdfRequestComplete it reaches: the retrieval of the input buffer
\* and of the output buffer, which give in, in_size, out and out_size, the
\* switch with its tests of in and out, the ioctl, RtlCopyMemory of the
\* first min(out_size, in_size) bytes of the argument structure to the
\* output buffer, WdfRequestSetInformation and the test of ret
builderEvtIoDeviceControl(pc, r, f) ==
    IF pc = "b_entry"
    THEN (IF r.InputBufferLength = 0 THEN HandlerAt("b_out", f)
          ELSE IF r.retrieve_in
          THEN HandlerAt("b_out", [f EXCEPT !.in = 1,
                                            !.in_size = r.InputBufferLength])
          ELSE HandlerAt("b_denied", f))
    ELSE IF pc = "b_out"
    THEN (IF r.OutputBufferLength = 0 THEN HandlerAt("b_switch", f)
          ELSE IF r.retrieve_out
          THEN HandlerAt("b_switch", [f EXCEPT !.out = 1,
                                               !.out_size = r.OutputBufferLength])
          ELSE HandlerAt("b_denied", f))
    ELSE IF pc = "b_switch"
    THEN (IF r.IoControlCode = "IOCTL_CREATE_VM"
          THEN HandlerAt(IF f.in = 0 \/ f.out = 0 THEN "b_denied" ELSE "c_image", f)
          ELSE IF r.IoControlCode = "IOCTL_DESTROY_VM"
          THEN HandlerAt(IF f.in = 0 THEN "b_denied" ELSE "d_destroy", f)
          ELSE HandlerAt("b_denied", f))
    ELSE IF pc = "b_copy"
    THEN HandlerAt("b_info",
                   [f EXCEPT !.copied = TRUE,
                             !.out_args =
                                RtlCopyMemory(f.out_args, f.args,
                                              IF f.out_size > f.in_size
                                              THEN f.in_size ELSE f.out_size)])
    ELSE IF pc = "d_destroy"
    THEN HandlerAt("b_info", [f EXCEPT !.ret = ioctl_destroy_vm(f.args, r.destroy_ok)])
    ELSE IF pc = "b_info"
    THEN HandlerAt(IF f.ret # "BF_IOCTL_SUCCESS" THEN "b_denied" ELSE "b_success",
                   [f EXCEPT !.information = IF r.OutputBufferLength # 0
                                            THEN f.out_size ELSE @])
    ELSE ioctl_create_vm(pc, f, r.fault)

\* the status of the WdfRequestComplete call builderEvtIoDeviceControl makes
\* at pc
complete_status(pc) ==
    IF pc = "b_success" THEN "STATUS_SUCCESS" ELSE "STATUS_ACCESS_DENIED"

\* VOID builderEvtIoStop(Queue, Request, ActionFlags): the
\* WdfRequestComplete calls it makes
builderEvtIoStop(r) == << "STATUS_SUCCESS" >>

\* a call WdfRequestComplete(Request, status) and the callback that made it
Completion(by, status) == [by |-> by, status |-> status]

RECURSIVE completions_by(_, _)
completions_by(by, statuses) ==
    IF statuses = << >> THEN << >>
    ELSE << Completion(by, Head(statuses)) >> \o completions_by(by, Tail(statuses))

\* processor p is inside builderEvtIoDeviceControl: the driver owns the
\* request
InBuilder(p) == cpu[p].pc \in BodyPcs \cup CompletePcs

\* the framework presents request r to the driver on processor p: the queue
\* dispatches in parallel, so other requests may be inside the handler on
\* other processors.  The driver owns the request from here until it is
\* completed
BuilderDispatch(p, r) ==
    /\ cpu[p].pc = "idle"
    /\ cpu' = [cpu EXCEPT ![p] = [IdleCpu EXCEPT !.pc = "b_entry",
                                     !.op = "builderEvtIoDeviceControl",
                                     !.request = r,
                                     !.frame = EntryFrame(r)]]
    /\ last' = [op |-> "dispatch"]
    /\ UNCHANGED << page_vars, io_vars, locks >>

\* processor p executes the next statement of builderEvtIoDeviceControl or
\* of the ioctl it is in
BuilderIoctl(p) ==
    /\ cpu[p].pc \in BodyPcs
    /\ \E n \in { builderEvtIoDeviceControl(cpu[p].pc, cpu[p].request,
                                            cpu[p].frame) } :
          cpu' = [cpu EXCEPT ![p].pc = n.pc, ![p].frame = n.frame]
    /\ last' = [op |-> "ioctl_body"]
    /\ UNCHANGED << page_vars, io_vars, locks >>

\* builderEvtIoDeviceControl calls WdfRequestComplete and returns:
\* completed are the WdfRequestComplete calls made on the request, in
\* order, handler what the ioctl did, copied and out_args what the output
\* buffer was given
BuilderComplete(p) ==
    /\ cpu[p].pc \in CompletePcs
    /\ last' = [op |-> "ioctl", request |-> cpu[p].request,
                completed |-> Append(cpu[p].calls,
                                     Completion("builderEvtIoDeviceControl",
                                                complete_status(cpu[p].pc))),
                handler |-> [ret |-> cpu[p].frame.ret, args |-> cpu[p].frame.args,
                             allocs |-> cpu[p].frame.allocs,
                             frees |-> cpu[p].frame.frees],
                copied |-> cpu[p].frame.copied,
                out_args |-> cpu[p].frame.out_args,
                information |-> cpu[p].frame.information]
    /\ cpu' = [cpu EXCEPT ![p] = IdleCpu]
    /\ UNCHANGED << page_vars, io_vars, locks >>

\* the framework calls builderEvtIoStop, on a thread of its own, for the
\* request processor p is handling (the queue is stopping: the device
\* leaves its working state or is removed, and the driver owns the
\* request); the callback completes the request itself and
\* builderEvtIoDeviceControl, which knows nothing of it, goes on
BuilderEvtIoStop(p) ==
    /\ InBuilder(p)
    /\ cpu[p].calls = << >>
    /\ cpu' = [cpu EXCEPT ![p].calls =
                   @ \o completions_by("builderEvtIoStop",
                                       builderEvtIoStop(cpu[p].request))]
    /\ last' = [op |-> "EvtIoStop",
                completions |-> builderEvtIoStop(cpu[p].request)]
    /\ UNCHANGED << page_vars, io_vars, locks >>

\* the first processor is given every request, the second one the requests
\* of ConcurrentRequests
BuilderNext ==
    \/ \E r \in Requests : BuilderDispatch("cpu0", r)
    \/ \E r \in ConcurrentRequests : BuilderDispatch("cpu1", r)
    \/ \E p \in Cpus : BuilderIoctl(p)
    \/ \E p \in Cpus : BuilderComplete(p)
    \/ \E p \in Cpus : BuilderEvtIoStop(p)

SpecBuilder == Init /\ [][BuilderNext]_vars

----------------------------------------------------------------------------
(* Properties of the tracker *)

\* the intervals (borrower, index) that contain page gpa
IntervalsWith(map, gpa) ==
    UNION { { << d, i >> : i \in { j \in 1..Len(map[d]) : contains(map[d][j], gpa) } } :
              d \in DOMAIN map }

\* every interval of the set is non-empty, the starts increase strictly in
\* iteration order and an interval ends at or before the start of the next
WellFormedSet(rs) ==
    \A i \in 1..Len(rs) :
        /\ rs[i].count >= 1
        /\ i < Len(rs) => /\ rs[i].start < rs[i + 1].start
                          /\ limit(rs[i]) <= rs[i + 1].start

\* every borrower's set is well formed
WellFormed(map) == \A d \in DOMAIN map : WellFormedSet(map[d])

\* the step inserted a page no range of the borrower covered, or removed a
\* page
FreshInsertOrRemove(l) == l.op = "remove" \/ (l.op = "insert" /\ l.fresh)

\* C1 (as stated): under inserts and removes in any order, every page is
\* contained in at most one interval, counting the intervals of all
\* borrowers together.
C1_NoDoubleDonationAnySequence ==
    \A gpa \in Pages : Cardinality(IntervalsWith(m_donated_page_map, gpa)) <= 1

\* C1 (amended): in a tracker whose sets are well formed, an insert of a
\* page that page_already_donated(gpa) reports for no borrower, and any
\* remove, keep every page in at most one interval over all borrowers; so
\* the property holds of every sequence, from the empty tracker, whose
\* inserts are all of pages no borrower holds.
C1_NoDoubleDonation ==
    [][(/\ C1_NoDoubleDonationAnySequence
        /\ WellFormed(m_donated_page_map)
        /\ (last'.op = "insert"
              => ~page_already_donated_any(m_donated_page_map, last'.gpa)))
       => C1_NoDoubleDonationAnySequence'
      ]_vars

\* an insert of a page nobody held, while the other borrower holds pages too
C1_Witness ==
    /\ last.op = "insert"
    /\ last.fresh
    /\ DOMAIN m_donated_page_map = Guests
    /\ \A g \in Guests : Len(m_donated_page_map[g]) >= 1
    /\ C1_NoDoubleDonationAnySequence
    /\ WellFormed(m_donated_page_map)
    /\ Cardinality(IntervalsWith(m_donated_page_map, last.gpa)) = 1

\* C2: from an empty set, inserting base, base+1, base+2 in any order leaves
\* the borrower with exactly the one interval {start=base, count=3}.
C2_CoalesceAnyOrder ==
    (script.dom # 0 /\ script.todo = << >>) =>
        m_donated_page_map[script.dom] = << PageRange(script.base, 3) >>

\* no two intervals of one borrower's set are adjacent or overlapping
NoAdjacentNoOverlap(map) ==
    \A g \in DOMAIN map :
        LET rs == map[g]
        IN \A i, j \in 1..Len(rs) :
              i # j => (limit(rs[i]) < rs[j].start \/ limit(rs[j]) < rs[i].start)

\* C3: an insert of a page not yet contained, and a remove, made on sets
\* that are well formed and hold no two adjacent or overlapping intervals,
\* leave sets that hold no two adjacent or overlapping intervals.
C3_NoAdjacentNoOverlap ==
    [][(/\ WellFormed(m_donated_page_map)
        /\ NoAdjacentNoOverlap(m_donated_page_map)
        /\ FreshInsertOrRemove(last'))
       => NoAdjacentNoOverlap(m_donated_page_map')
      ]_vars

\* C4: a remove on a set holding the single interval {p, n} yields: no
\* interval when n = 1; {p+1, n-1} for the bottom page; {p, n-1} for the top
\* page; {p, k} and {p+k+1, n-k-1} for the middle page p+k.
C4_RemoveSplits ==
    [][\A g \in DOMAIN m_donated_page_map :
          LET rs == m_donated_page_map[g]
          IN (/\ Len(rs) = 1
              /\ last'.op = "remove"
              /\ last'.dom = g
              /\ contains(rs[1], last'.gpa))
             => LET p == rs[1].start
                    n == rs[1].count
                    k == (last'.gpa - p) \div UV_PAGE_SIZE
                IN m_donated_page_map'[g] =
                     IF n = 1 THEN << >>
                     ELSE IF k = 0 THEN << PageRange(p + UV_PAGE_SIZE, n - 1) >>
                     ELSE IF k = n - 1 THEN << PageRange(p, n - 1) >>
                     ELSE << PageRange(p, k),
                             PageRange(p + (k + 1) * UV_PAGE_SIZE, n - k - 1) >>
      ]_vars

\* removing the middle page p+2 of {p, 5} has left {p, 2} and {p+3, 2}
C4_Witness ==
    /\ last.op = "remove"
    /\ last.nranges = 1
    /\ last.found = PageRange(UV_PAGE_SIZE, 5)
    /\ last.gpa = 3 * UV_PAGE_SIZE
    /\ m_donated_page_map[last.dom] =
          << PageRange(UV_PAGE_SIZE, 2), PageRange(4 * UV_PAGE_SIZE, 2) >>

\* the addresses queried: the tracked pages and one page either side
QueryPages == { i * UV_PAGE_SIZE : i \in 0..(MaxPages + 1) }

\* C5: page_already_donated(borrower, gpa) is true iff gpa lies within some
\* interval of that borrower's set; false for a borrower without an entry
\* and for a page only another borrower holds.
C5_AlreadyDonatedIffContained ==
    \A g \in Guests, gpa \in QueryPages :
        page_already_donated(m_donated_page_map, g, gpa)
          <=> (/\ g \in DOMAIN m_donated_page_map
               /\ \E i \in 1..Len(m_donated_page_map[g]) :
                     LET r == m_donated_page_map[g][i]
                     IN r.start <= gpa /\ gpa < r.start + r.count * UV_PAGE_SIZE)

----------------------------------------------------------------------------
(* Properties of the donate / reclaim protocol *)

RootRwe(p) ==
    [present |-> TRUE, from |-> PT_FROM, hpa |-> p, perm |-> "rwe", mtype |-> "wb"]

\* a call of one of ops has just returned, in a run that remembers the
\* state the call was entered in (last.before)
Completed(ops) == last.op \in ops /\ last.before.taken

\* no processor is inside a handler
Quiet == \A p \in Cpus : cpu[p].pc \in { "idle", "returned" }

\* C6: when page p is recorded as donated to guest g (as a successful
\* donate_root_page leaves it) and g has left the registry, the root's
\* reclaim_root_page(g, p) succeeds, leaves p identity-mapped
\* read-write-execute in the root's map and in no interval of the tracker,
\* and page_already_donated(g, p) is false afterwards.
C6_DonateReclaimRoundTrip ==
    (/\ Completed({ "reclaim" })
     /\ last.self = ROOT_DOMID
     /\ last.dom \notin last.before.domains
     /\ page_already_donated(last.before.map, last.dom, upper(last.gpa, PT_FROM)))
    => LET p == upper(last.gpa, PT_FROM)
       IN /\ last.rc = SUCCESS
          /\ root_ept[p] = RootRwe(p)
          /\ IntervalsWith(m_donated_page_map, p) = {}
          /\ ~page_already_donated(m_donated_page_map, last.dom, p)

\* a page was reclaimed while another page stays donated to the same guest
C6_Witness ==
    /\ last.op = "reclaim"
    /\ last.rc = SUCCESS
    /\ root_ept[upper(last.gpa, PT_FROM)] = RootRwe(upper(last.gpa, PT_FROM))
    /\ ~page_already_donated(m_donated_page_map, last.dom, upper(last.gpa, PT_FROM))
    /\ last.dom \in DOMAIN m_donated_page_map
    /\ Len(m_donated_page_map[last.dom]) = 1

\* C7: while get_domain(borrower) finds a live domain, reclaim_root_page
\* and reclaim_root_pages return FAILURE and leave the tracker and the
\* root's map unchanged.
C7_LivenessGuard ==
    (/\ Completed({ "reclaim", "reclaim_all" })
     /\ last.dom \in last.before.domains)
    => /\ last.rc = FAILURE
       /\ m_donated_page_map = last.before.map
       /\ root_ept = last.before.ept

\* the root tried to reclaim from a live guest that holds donated pages
C7_Witness ==
    /\ last.op = "reclaim_all"
    /\ last.self = ROOT_DOMID
    /\ last.rc = FAILURE
    /\ last.dom \in domains
    /\ last.dom \in DOMAIN m_donated_page_map
    /\ m_donated_page_map[last.dom] # << >>

\* C8: donate_root_page, reclaim_root_page and reclaim_root_pages, invoked
\* on a domain that is not the root, fail at once by returning a failure
\* code and touch neither the tracker nor an Address-Translation Map
C8_NonRootReturnsFailure ==
    (/\ Completed({ "donate", "reclaim", "reclaim_all" })
     /\ last.self # ROOT_DOMID)
    => /\ last.rc = FAILURE
       /\ m_donated_page_map = last.before.map
       /\ root_ept = last.before.ept
       /\ guest_ept = last.before.guest_ept
       /\ xen_pages = last.before.xen_pages

Count(seq, x) == Cardinality({ i \in 1..Len(seq) : seq[i] = x })

RevocationCalls ==
    { "begin_shootdown", "identity_map_convert_2m_to_4k", "unmap", "end_shootdown",
      "invept", "add_page_to_donated_range" }

\* C9: a donate_root_page call for a page already recorded as donated to
\* that guest (as the second of two successive successful calls finds it)
\* succeeds, performs none of begin_shootdown / unmap / end_shootdown /
\* invept / tracker insertion and only installs the guest mapping; a call
\* that performs the revocation performs each of these steps once.
C9_IdempotentRedonation ==
    (/\ Completed({ "donate" })
     /\ last.self = ROOT_DOMID)
    => /\ \A c \in RevocationCalls : Count(last.calls, c) <= 1
       /\ page_already_donated(last.before.map, last.dom, upper(last.gpa, PT_FROM))
          => /\ last.rc = SUCCESS
             /\ last.calls \in { << "map_4k" >>, << "add_root_page" >> }
             /\ m_donated_page_map = last.before.map
             /\ root_ept = last.before.ept
             /\ in_flight = last.before.in_flight

\* the second donation of a page to the same guest only mapped it
C9_Witness ==
    /\ last.op = "donate"
    /\ last.rc = SUCCESS
    /\ last.calls = << "map_4k" >>
    /\ page_already_donated(m_donated_page_map, last.dom, upper(last.gpa, PT_FROM))
    /\ guest_ept[last.dom][16 * UV_PAGE_SIZE].hpa = upper(last.gpa, PT_FROM)

\* C10: when begin_shootdown finds a shootdown in flight, donate_root_page
\* returns AGAIN, and a call that returns AGAIN leaves the tracker, the
\* root's map and the guests' maps as they were.
C10_AgainCommitsNothing ==
    (/\ Completed({ "donate" })
     /\ last.self = ROOT_DOMID)
    => /\ (/\ ~page_already_donated(last.before.map, last.dom,
                                     upper(last.gpa, PT_FROM))
           /\ last.before.ept[upper(last.gpa, PT_FROM)].present
           /\ last.fault \notin { "resolver", "mismatch" }
           /\ (last.fault = "busy" \/ last.before.in_flight))
          => last.rc = AGAIN
       /\ last.rc = AGAIN
          => /\ AGAIN \notin { SUCCESS, FAILURE }
             /\ m_donated_page_map = last.before.map
             /\ root_ept = last.before.ept
             /\ guest_ept = last.before.guest_ept
             /\ xen_pages = last.before.xen_pages
             /\ in_flight = last.before.in_flight

\* a donation of a page of a 2M mapping met a shootdown in flight
C10_Witness ==
    /\ last.op = "donate"
    /\ last.rc = AGAIN
    /\ last.fault = "busy"
    /\ last.calls = << "gpa_to_hpa", "begin_shootdown" >>
    /\ root_ept[upper(last.gpa, PT_FROM)].present
    /\ root_ept[upper(last.gpa, PT_FROM)].from = PD_FROM

StepOf(fault) ==
    CASE fault = "resolver" -> "gpa_to_hpa"
      [] fault = "mismatch" -> "gpa_to_hpa"
      [] fault = "convert" -> "identity_map_convert_2m_to_4k"
      [] fault = "unmap" -> "unmap"
      [] fault = "end_shootdown" -> "end_shootdown"
      [] fault = "invept" -> "invept"
      [] OTHER -> "none"

InSeq(seq, x) == \E i \in 1..Len(seq) : seq[i] = x

\* the pages recorded for borrower g
RecordedPages(map, g) ==
    IF g \in DOMAIN map
    THEN { pages_of(map[g])[i] : i \in 1..Len(pages_of(map[g])) }
    ELSE {}

\* C11: when a step of donate_root_page from the address resolution to the
\* translation-cache invalidation raises an error (resolver, demotion, unmap,
\* end of shootdown, invalidation), the call returns FAILURE and the tracker
\* is unchanged; no call that returns FAILURE leaves the page recorded.
C11_FailureLeavesTracker ==
    (/\ Completed({ "donate" })
     /\ last.self = ROOT_DOMID)
    => /\ (/\ last.fault \in { "resolver", "convert", "unmap", "end_shootdown",
                                "invept" }
           /\ InSeq(last.calls, StepOf(last.fault)))
          => /\ last.rc = FAILURE
             /\ m_donated_page_map = last.before.map
       /\ last.rc = FAILURE
          => /\ m_donated_page_map = last.before.map
             /\ ~page_already_donated(m_donated_page_map, last.dom,
                                      upper(last.gpa, PT_FROM))

\* the invalidation failed after the page was unmapped, while the guest
\* already holds another page
C11_Witness ==
    /\ last.op = "donate"
    /\ last.rc = FAILURE
    /\ last.fault = "invept"
    /\ InSeq(last.calls, "unmap")
    /\ ~root_ept[upper(last.gpa, PT_FROM)].present
    /\ RecordedPages(m_donated_page_map, last.dom) # {}
    /\ upper(last.gpa, PT_FROM) \notin RecordedPages(m_donated_page_map, last.dom)

\* C12: once the donate_root_page, reclaim_root_page and reclaim_root_pages
\* operations that were called have completed, every page recorded in the
\* tracker is not present in the root's map.
C12_DonationWindow ==
    Quiet =>
        \A g \in DOMAIN m_donated_page_map :
            \A p \in RecordedPages(m_donated_page_map, g) :
                p \in DOMAIN root_ept /\ ~root_ept[p].present

\* C14: reclaim_root_page for a page not recorded as donated to the given
\* borrower returns FAILURE and leaves the tracker and every map unchanged.
C14_ReclaimNotDonated ==
    (/\ Completed({ "reclaim" })
     /\ ~page_already_donated(last.before.map, last.dom, upper(last.gpa, PT_FROM)))
    => /\ last.rc = FAILURE
       /\ m_donated_page_map = last.before.map
       /\ root_ept = last.before.ept
       /\ guest_ept = last.before.guest_ept
       /\ xen_pages = last.before.xen_pages
       /\ in_flight = last.before.in_flight

\* the root asked for a page of a departed guest that holds other pages only,
\* while the page is not present in the root's map
C14_Witness ==
    /\ last.op = "reclaim"
    /\ last.self = ROOT_DOMID
    /\ last.dom \notin domains
    /\ last.rc = FAILURE
    /\ RecordedPages(m_donated_page_map, last.dom) # {}
    /\ ~root_ept[upper(last.gpa, PT_FROM)].present

\* C15: a successful reclaim_root_pages(borrower) leaves every page of the
\* borrower's intervals identity-mapped read-write-execute in the root and
\* removes the borrower's set: donated_pages_to_guest(borrower) and
\* page_already_donated(borrower, p) are false afterwards, and the sets of
\* the other borrowers are as before.
C15_BulkReclaim ==
    (/\ Completed({ "reclaim_all" })
     /\ last.rc = SUCCESS)
    => LET g == last.dom
           before == last.before.map
       IN /\ g \in DOMAIN before
          /\ \A p \in RecordedPages(before, g) : root_ept[p] = RootRwe(p)
          /\ ~donated_pages_to_guest(m_donated_page_map, g)
          /\ \A p \in QueryPages : ~page_already_donated(m_donated_page_map, g, p)
          /\ \A d \in (DOMAIN before) \ {g} :
                /\ d \in DOMAIN m_donated_page_map
                /\ m_donated_page_map[d] = before[d]

\* the pages of one borrower were reclaimed in bulk while another borrower
\* keeps its page
C15_Witness ==
    /\ last.op = "reclaim_all"
    /\ last.rc = SUCCESS
    /\ Len(last.pages) >= 1
    /\ \A i \in 1..Len(last.pages) : root_ept[last.pages[i]] = RootRwe(last.pages[i])
    /\ last.dom \notin DOMAIN m_donated_page_map
    /\ \E d \in DOMAIN m_donated_page_map : m_donated_page_map[d] # << >>

\* the other pages translated by the mapping that translates p
Siblings(ept, p) == entry_pages(ept, p) \ { p }

\* after the donation of p, p is not present and each page of sibs is
\* identity-mapped by a 4K entry with the attributes it had in ept
SplitAround(ept, ept2, p, sibs) ==
    /\ ~ept2[p].present
    /\ \A q \in sibs :
          ept2[q] = [present |-> TRUE, from |-> PT_FROM, hpa |-> q,
                     perm |-> ept[q].perm, mtype |-> ept[q].mtype]

\* a donate_root_page call that performed the revocation and succeeded
Revoked(l) ==
    /\ l.op = "donate"
    /\ l.self = ROOT_DOMID
    /\ l.rc = SUCCESS
    /\ InSeq(l.calls, "unmap")

\* C13 (as stated): when the root mapping that covers the donated page is a
\* 2M or a 1G mapping, a successful donation has split it to 4K first:
\* afterwards the donated page alone is not present and every other page of
\* the mapping is still identity-mapped.
C13_LargeMappingSplit ==
    (/\ Revoked(last)
     /\ last.before.taken
     /\ last.before.ept[upper(last.gpa, PT_FROM)].from \in { PD_FROM, PDPT_FROM })
    => LET p == upper(last.gpa, PT_FROM)
       IN /\ InSeq(last.calls, "identity_map_convert_2m_to_4k")
          /\ SplitAround(last.before.ept, root_ept, p, Siblings(last.before.ept, p))

\* C13 (amended): when the root mapping that covers the donated page is a 2M
\* mapping, a successful donation has split it to 4K first, the donated
\* page alone is not present afterwards and every other page of the 2M
\* mapping is still identity-mapped; a 1G mapping is not split by
\* donate_root_page.
C13_2mMappingSplit ==
    (Revoked(last) /\ last.before.taken)
    => LET p == upper(last.gpa, PT_FROM)
       IN /\ last.before.ept[p].from = PD_FROM
             => /\ InSeq(last.calls, "identity_map_convert_2m_to_4k")
                /\ SplitAround(last.before.ept, root_ept, p,
                               Siblings(last.before.ept, p))
          /\ last.before.ept[p].from = PDPT_FROM
             => ~InSeq(last.calls, "identity_map_convert_2m_to_4k")

\* a page of the 2M identity mapping was donated: it is gone from the
\* root's map and its neighbour is mapped by a 4K entry
C13_Witness ==
    /\ Revoked(last)
    /\ InSeq(last.calls, "identity_map_convert_2m_to_4k")
    /\ ~root_ept[upper(last.gpa, PT_FROM)].present
    /\ \E q \in RootPages :
          /\ q # upper(last.gpa, PT_FROM)
          /\ root_ept[q] = RootRwe(q)

----------------------------------------------------------------------------
(* Properties of the IOMMU coordination *)

Elems(seq) == { seq[k] : k \in 1..Len(seq) }

NoDup(seq) == \A j, k \in 1..Len(seq) : j # k => seq[j] # seq[k]

CoherenceFlags(devs, hw) ==
    { hw[devs[k].m_iommu].coherent_page_walk : k \in 1..Len(devs) }

SnoopFlags(devs, hw) ==
    { hw[devs[k].m_iommu].snoop_ctl : k \in 1..Len(devs) }

\* C16: prepare_iommus records on the map the logical AND of the
\* coherent-page-walk capability of the IOMMUs of the devices assigned to
\* the domain when it is called: false with exactly one full table flush
\* when the flags are {true, false}, true with no flush when all are true
\* or no device is assigned.  The snoop-control capability is recorded the
\* same way and causes no flush.
C16_CapabilityIntersection ==
    last.op = "prepare_iommus"
    => LET d == last.dom
           coh == CoherenceFlags(last.devs, iommus)
           snp == SnoopFlags(last.devs, iommus)
       IN /\ iodom[d].iommu_coherence = (FALSE \notin coh)
          /\ iodom[d].iommu_snoop_ctl = (FALSE \notin snp)
          /\ coh = { TRUE, FALSE }
             => ~iodom[d].iommu_coherence /\ last.flushes = 1
          /\ coh \subseteq { TRUE }
             => iodom[d].iommu_coherence /\ last.flushes = 0
          /\ last.flushes = (IF FALSE \in coh THEN 1 ELSE 0)

\* two devices behind a coherent and a non-coherent IOMMU: one flush
C16_Witness ==
    /\ last.op = "prepare_iommus"
    /\ Len(last.devs) = 2
    /\ CoherenceFlags(last.devs, iommus) = { TRUE, FALSE }
    /\ SnoopFlags(last.devs, iommus) = { TRUE, FALSE }
    /\ ~iodom[last.dom].iommu_coherence
    /\ last.flushes = 1
    /\ Len(iodom[last.dom].m_iommu_set) = 2

\* the set is read and written between one acquire and one release of the lock
LockedThroughout(calls) ==
    /\ Len(calls) >= 3
    /\ calls[1] = "spin_acquire"
    /\ calls[Len(calls)] = "spin_release"
    /\ Count(calls, "spin_acquire") = 1
    /\ Count(calls, "spin_release") = 1

\* C17: after any sequence of add_iommu and remove_iommu calls the IOMMU
\* set holds each IOMMU at most once; adding an IOMMU that is in the set and
\* removing one that is not change nothing; each call holds the lock for
\* its whole read-modify-write.
C17_AddIommuIdempotent ==
    [][/\ \A d \in IoDomains : NoDup(iodom'[d].m_iommu_set)
       /\ last'.op \in { "add_iommu", "remove_iommu" }
          => LET set == iodom[last'.dom].m_iommu_set
                 set2 == iodom'[last'.dom].m_iommu_set
                 add == last'.op = "add_iommu"
             IN /\ LockedThroughout(last'.calls)
                /\ Elems(set2) = IF add THEN Elems(set) \cup { last'.iommu }
                                 ELSE Elems(set) \ { last'.iommu }
                /\ (add <=> last'.iommu \in Elems(set)) => set2 = set
      ]_vars

\* an IOMMU was added a second time to a set of two
C17_Witness ==
    /\ last.op = "add_iommu"
    /\ last.calls = << "spin_acquire", "count", "spin_release" >>
    /\ Len(iodom[last.dom].m_iommu_set) = 2
    /\ iommu_set_count(iodom[last.dom].m_iommu_set, last.iommu) = 1

\* C18: enable_dma_remapping is never invoked on an IOMMU whose DMA
\* remapping is already enabled, also when the map_dma calls of two domains
\* that share an IOMMU run on different processors, and when map_dma
\* returns every IOMMU of the domain's set has DMA remapping enabled.
C18_EnabledExactlyOnce ==
    /\ last.op = "enable_dma_remapping" => ~last.was_enabled
    /\ (last.op = "map_dma_return" /\ last.rc = SUCCESS)
       => \A i \in Elems(iodom[last.dom].m_iommu_set) :
             iommus[i].dma_remapping_enabled

\* C19: flush_iotlb_page_4k and flush_iotlb_page_2m issue exactly one
\* invalidation to each IOMMU of the domain's set: the page range of the
\* given page (4K, respectively 512 x 4K) when the IOMMU supports
\* page-selective invalidation, a full per-domain flush otherwise.
C19_FlushPerIommu ==
    last.op \in { "flush_iotlb_page_4k", "flush_iotlb_page_2m" }
    => LET set == iodom[last.dom].m_iommu_set
           bytes == IF last.op = "flush_iotlb_page_4k" THEN 4096 ELSE 2097152
           to(i) == { k \in 1..Len(last.calls) : last.calls[k].iommu = i }
       IN /\ \A i \in Iommus :
                Cardinality(to(i)) = (IF i \in Elems(set) THEN 1 ELSE 0)
          /\ \A k \in 1..Len(last.calls) :
                LET c == last.calls[k]
                IN IF iommus[c.iommu].psi_supported
                   THEN /\ c.fn = "flush_iotlb_page_range"
                        /\ c.gpa = last.gpa
                        /\ c.bytes = bytes
                   ELSE c.fn = "flush_iotlb_domain"

\* a 2M flush on a set of one IOMMU with and one without page-selective
\* invalidation
C19_Witness ==
    /\ last.op = "flush_iotlb_page_2m"
    /\ Len(last.calls) = 2
    /\ \E j, k \in 1..2 :
          /\ last.calls[j].fn = "flush_iotlb_page_range"
          /\ last.calls[j].bytes = 2097152
          /\ last.calls[k].fn = "flush_iotlb_domain"

\* the mapping calls of a root map_dma that passed its contract checks
RootMaps == IF last.op = "map_dma" /\ last.dom = ROOT_DOMID /\ last.rc = "pending"
            THEN Elems(last.maps) ELSE {}

\* every function not reserved for passthrough is mapped on the catch-all
\* IOMMU, a bus without passthrough device as a whole; no passthrough
\* function is mapped through an IOMMU with catch-all scope
CatchallCoverage(maps) ==
    LET catchall == find_catchall_iommu(iodom[ROOT_DOMID].m_iommu_set, iommus)
        reserved(bus, devfn) == \E pdev \in PassthruDevs : pdev.cf8 = << bus, devfn >>
        has_reserved(bus) == \E pdev \in PassthruDevs : pdev.cf8[1] = bus
    IN /\ catchall # 0
       /\ \A bus \in 0..(pci_nr_bus - 1) :
             IF ~has_reserved(bus)
             THEN MapCall(catchall, "map_bus", bus, -1) \in maps
             ELSE \A devfn \in 0..(pci_nr_devfn - 1) :
                     ~reserved(bus, devfn)
                       => MapCall(catchall, "map_bdf", bus, devfn) \in maps
       /\ \A pdev \in PassthruDevs : \A c \in maps :
             (/\ iommus[c.iommu].has_catchall_scope
              /\ c.bus = pdev.cf8[1])
             => (c.fn = "map_bdf" /\ c.devfn # pdev.cf8[2])

OwnMapCall(pdev) == MapCall(pdev.m_iommu, "map_bdf", pdev.cf8[1], pdev.cf8[2])

\* C20 (as stated): root map_dma maps every function not reserved for
\* passthrough on the catch-all IOMMU (a bus without passthrough device as a
\* whole); a function reserved for passthrough is never mapped through the
\* catch-all IOMMU and is mapped individually on its owning IOMMU.
C20_RootMapDma ==
    (last.op = "map_dma" /\ last.dom = ROOT_DOMID /\ last.rc = "pending")
    => /\ CatchallCoverage(RootMaps)
       /\ \A pdev \in PassthruDevs : OwnMapCall(pdev) \in RootMaps

\* C20 (amended): as stated for the functions not reserved for passthrough;
\* a function reserved for passthrough is never mapped through an IOMMU with
\* catch-all scope, and it is mapped individually on its owning IOMMU
\* exactly when it is assigned to the root and its owning IOMMU has no
\* catch-all scope.
C20_RootMapDmaAssigned ==
    (last.op = "map_dma" /\ last.dom = ROOT_DOMID /\ last.rc = "pending")
    => /\ CatchallCoverage(RootMaps)
       /\ \A pdev \in PassthruDevs :
             OwnMapCall(pdev) \in RootMaps
               <=> (/\ pdev \in Elems(iodom[ROOT_DOMID].m_pci_devs)
                    /\ ~iommus[pdev.m_iommu].has_catchall_scope)

\* the root mapped one passthrough function on its own IOMMU and left out
\* the one whose IOMMU has the catch-all scope
C20_Witness ==
    /\ last.op = "map_dma"
    /\ last.dom = ROOT_DOMID
    /\ last.rc = "pending"
    /\ Len(iodom[ROOT_DOMID].m_pci_devs) = 2
    /\ \E pdev \in PassthruDevs : OwnMapCall(pdev) \in RootMaps
    /\ \E pdev \in PassthruDevs :
          /\ iommus[pdev.m_iommu].has_catchall_scope
          /\ OwnMapCall(pdev) \notin RootMaps
    /\ MapCall(find_catchall_iommu(iodom[ROOT_DOMID].m_iommu_set, iommus),
               "map_bus", 0, -1) \in RootMaps

\* the mapping calls of a guest map_dma that passed its contract check
GuestMaps == IF last.op = "map_dma" /\ last.dom # ROOT_DOMID /\ last.rc = "pending"
             THEN last.maps ELSE << >>

\* C21: map_dma of a non-root domain maps exactly the device functions
\* assigned to that domain, once per entry of m_pci_devs and on the IOMMU
\* that owns the device; it maps no bus and no other device function.
C21_GuestMapDma ==
    (last.op = "map_dma" /\ last.dom # ROOT_DOMID /\ last.rc = "pending")
    => /\ Elems(GuestMaps)
            = { OwnMapCall(pdev) : pdev \in Elems(iodom[last.dom].m_pci_devs) }
       /\ Len(GuestMaps) = Len(iodom[last.dom].m_pci_devs)
       /\ \A c \in Elems(GuestMaps) : c.fn = "map_bdf"

\* a guest with one passthrough function mapped it on the owning IOMMU and
\* left the function assigned to the root alone
C21_Witness ==
    /\ last.op = "map_dma"
    /\ last.dom # ROOT_DOMID
    /\ last.rc = "pending"
    /\ Len(iodom[last.dom].m_pci_devs) = 1
    /\ Len(iodom[ROOT_DOMID].m_pci_devs) = 1
    /\ Len(GuestMaps) = 1
    /\ OwnMapCall(iodom[ROOT_DOMID].m_pci_devs[1]) \notin Elems(GuestMaps)

----------------------------------------------------------------------------
(* Properties of the revocation sequence *)

\* x occurs in seq, and before every occurrence of y
Precedes(seq, x, y) ==
    \A j \in 1..Len(seq) : seq[j] = y => \E i \in 1..(j - 1) : seq[i] = x

\* the calls of a complete revocation, with or without the demotion, up to
\* the tracker insertion
RevocationOrders ==
    { << "gpa_to_hpa", "begin_shootdown", "unmap", "end_shootdown", "invept",
         "add_page_to_donated_range" >>,
      << "gpa_to_hpa", "begin_shootdown", "identity_map_convert_2m_to_4k", "unmap",
         "end_shootdown", "invept", "add_page_to_donated_range" >> }

\* C24: a donate_root_page call that performs the revocation and succeeds
\* makes its calls in this order: begin_shootdown, the demotion if there is
\* one, unmap, end_shootdown, invept, the tracker insertion and last the
\* installation of the guest mapping; no call unmaps the root page before
\* it has called begin_shootdown.
C24_RevocationOrder ==
    (last.op = "donate" /\ last.self = ROOT_DOMID)
    => /\ (last.rc = SUCCESS /\ InSeq(last.calls, "begin_shootdown"))
          => \E order \in RevocationOrders :
                last.calls = order \o << IF is_xen_dom(last.dom)
                                         THEN "add_root_page" ELSE "map_4k" >>
       /\ Precedes(last.calls, "begin_shootdown", "unmap")
       /\ Precedes(last.calls, "begin_shootdown", "identity_map_convert_2m_to_4k")

\* a donation demoted the 2M mapping, revoked the page and mapped it in the
\* guest
C24_Witness ==
    /\ last.op = "donate"
    /\ last.rc = SUCCESS
    /\ Len(last.calls) = 8
    /\ last.calls[3] = "identity_map_convert_2m_to_4k"
    /\ last.calls[8] = "map_4k"
    /\ ~root_ept[upper(last.gpa, PT_FROM)].present

\* the call of the last step installed a guest mapping
Installed == InSeq(last.calls, "map_4k") \/ InSeq(last.calls, "add_root_page")

\* C25: when donate_root_page returns SUCCESS for root page p, guest g and
\* guest address a, p is recorded in the tracker under g, p is not present
\* in the root's map, and the map of a guest that is not paravirtualized
\* translates a to p by a 4K entry with the requested permission and memory
\* type; a call installs the guest mapping only when p is not present in the
\* root's map.
C25_SuccessfulDonation ==
    (last.op = "donate" /\ last.self = ROOT_DOMID)
    => LET p == upper(last.gpa, PT_FROM)
       IN /\ last.rc = SUCCESS
             => /\ p \in RecordedPages(m_donated_page_map, last.dom)
                /\ ~root_ept[p].present
                /\ ~is_xen_dom(last.dom)
                   => guest_ept[last.dom][last.guest_gpa]
                        = [present |-> TRUE, from |-> PT_FROM, hpa |-> p,
                           perm |-> last.perm, mtype |-> last.mtype]
          /\ Installed => (last.rc = SUCCESS /\ ~root_ept[p].present)

----------------------------------------------------------------------------
(* Properties of the failing paths of donate_root_page *)

\* the calls by which donate_root_page changes the shootdown state, a map
\* or the tracker
MutatingCalls ==
    { "begin_shootdown", "identity_map_convert_2m_to_4k", "unmap",
      "add_page_to_donated_range", "map_4k", "add_root_page" }

\* C26: when the resolver returns a host-physical address other than the
\* rounded-down root address, donate_root_page ends by a fatal internal
\* error and not by an ordinary result, and it performs no shootdown, no
\* unmap, no tracker insertion and no guest mapping.
C26_IdentityViolationFatal ==
    (last.op = "donate" /\ last.self = ROOT_DOMID /\ last.fault = "mismatch")
    => /\ last.rc \notin { SUCCESS, FAILURE, AGAIN }
       /\ \A c \in MutatingCalls : ~InSeq(last.calls, c)

\* every page that is not present in the root's map is recorded in the
\* tracker
NoLeakedPage ==
    \A p \in RootPages :
        ~root_ept[p].present
          => \E g \in DOMAIN m_donated_page_map :
                p \in RecordedPages(m_donated_page_map, g)

\* C27: a donate_root_page call that returns FAILURE has not changed the
\* root's map: the page is mapped in the root as before the call, and no
\* page is left not present in the root without being recorded in the
\* tracker.
C27_FailureLeavesRootMap ==
    (/\ Completed({ "donate" })
     /\ last.self = ROOT_DOMID
     /\ last.rc = FAILURE)
    => /\ root_ept = last.before.ept
       /\ NoLeakedPage

----------------------------------------------------------------------------
(* Removal of a page the tracker does not hold *)

\* some interval of borrower g contains page gpa
Held(map, g, gpa) ==
    /\ g \in DOMAIN map
    /\ \E i \in 1..Len(map[g]) : contains(map[g][i], gpa)

\* C28: remove_page_from_donated_range for a page that no interval of the
\* borrower contains, or for a borrower without tracker entry, changes
\* nothing: the tracker keeps the same borrowers with the same interval
\* sets.
C28_RemoveAbsentNoOp ==
    [][(/\ last'.op = "remove"
        /\ ~Held(m_donated_page_map, last'.dom, last'.gpa))
       => m_donated_page_map' = m_donated_page_map
      ]_vars

\* the page asked for lies between two intervals of the borrower
C28_Witness ==
    /\ last.op = "remove"
    /\ last.found = NoRange
    /\ last.dom \in DOMAIN m_donated_page_map
    /\ Len(m_donated_page_map[last.dom]) = 2
    /\ limit(m_donated_page_map[last.dom][1]) <= last.gpa
    /\ last.gpa < m_donated_page_map[last.dom][2].start

----------------------------------------------------------------------------
(* The shootdown begun by a donation *)

\* C30: a donate_root_page call in which begin_shootdown succeeded calls
\* end_shootdown exactly once before it returns, whatever its result, and
\* leaves no shootdown in flight.
C30_ShootdownEnded ==
    (/\ last.op = "donate"
     /\ last.self = ROOT_DOMID
     /\ InSeq(last.calls, "begin_shootdown")
     /\ last.rc # AGAIN)
    => /\ Count(last.calls, "end_shootdown") = 1
       /\ ~in_flight

----------------------------------------------------------------------------
(* The retrying caller *)

\* C29: a root caller that calls donate_root_page again from the top each
\* time it returns AGAIN eventually receives another result, under weak
\* fairness of the processors, whatever the other donations do; no donation
\* leaves the system in a state where AGAIN is returned forever.
C29_RetryTerminates ==
    \A p \in Cpus :
        (cpu[p].retry /\ cpu[p].pc # "returned") ~> (cpu[p].pc = "returned")

\* the processors inside a tracker operation
InTracker == { p \in Cpus : cpu[p].pc \in { "in", "mid" } }

\* C22: every tracker operation (insert, remove, the bulk discard of
\* reclaim_root_pages, and the queries page_already_donated and
\* donated_pages_to_guest) runs holding the tracker's lock: a processor
\* inside one is the holder of m_donated_page_lock, at most one processor
\* is inside at a time, and a query that has read the tracker did so while
\* no insert, shrink or split of another processor was half applied
C22_TrackerLock ==
    /\ \A p \in InTracker : locks["m_donated_page_lock"] = p
    /\ Cardinality(InTracker) <= 1
    /\ last.op \in QueryFns => \A q \in Cpus : cpu[q].pc # "mid"

\* a split is half applied (the range erased, its two parts not yet back)
\* by the holder of the lock while the other processor is outside
C22_Witness ==
    \E p \in Cpus :
        /\ cpu[p].pc = "mid"
        /\ cpu[p].op = "remove_page_from_donated_range"
        /\ Len(cpu[p].writes) = 2
        /\ locks["m_donated_page_lock"] = p
        /\ \A q \in Cpus \ {p} : cpu[q].pc = "idle"

\* C23: from the call of begin_shootdown until end_shootdown returns, the
\* processor running donate_root_page holds neither m_donated_page_lock nor
\* m_iommu_lock, so no other processor spins on a lock held by a processor
\* that is inside a shootdown
C23_ShootdownLockDiscipline ==
    \A p \in Cpus :
        cpu[p].pc \in ShootdownPcs =>
            /\ \A l \in LockNames : locks[l] # p
            /\ \A q \in Cpus \ {p} :
                  WantedLock(q) # NoLock => locks[WantedLock(q)] # p

\* one processor is inside its shootdown, the root page unmapped and
\* end_shootdown not yet called, while the other processor holds the
\* tracker's lock
C23_Witness ==
    \E p \in Cpus, q \in Cpus :
        /\ p # q
        /\ cpu[p].pc = "d_end"
        /\ in_flight
        /\ ~root_ept[cpu[p].gpa].present
        /\ locks["m_donated_page_lock"] = q

----------------------------------------------------------------------------
(* Structure and abstraction of the tracker *)

\* C40: every insert of a page not yet contained and every remove, made on
\* well-formed sets, keep each borrower's interval set well formed: every
\* interval has count >= 1, the start addresses increase strictly in
\* iteration order and no two intervals overlap
C40_IntervalSetWellFormed ==
    [][(WellFormed(m_donated_page_map) /\ FreshInsertOrRemove(last'))
       => WellFormed(m_donated_page_map')
      ]_vars

\* an insert of a page not yet contained moved the start of an interval
\* down in place, next to a lower interval of the same borrower
C40_Witness ==
    /\ last.op = "insert"
    /\ last.fresh
    /\ WellFormed(m_donated_page_map)
    /\ \E i \in 2..Len(m_donated_page_map[last.dom]) :
          /\ m_donated_page_map[last.dom][i].start = last.gpa
          /\ m_donated_page_map[last.dom][i].count >= 2

\* the pages covered by the intervals of borrower g
Covered(map, g) ==
    IF g \notin DOMAIN map THEN {}
    ELSE { p \in Pages : \E i \in 1..Len(map[g]) : contains(map[g][i], p) }

\* the abstract page set of borrower g after the step recorded in l
AbstractStep(pages, g, l) ==
    IF l.op = "insert" /\ l.dom = g THEN pages \cup { l.gpa }
    ELSE IF l.op = "remove" /\ l.dom = g THEN pages \ { l.gpa }
    ELSE pages

\* C34: the tracker refines a page set per borrower: on well-formed sets an
\* insert of a page not donated to the borrower adds exactly that page to
\* the pages its intervals cover, a remove takes exactly that page away,
\* the other borrowers' pages stay, and page_already_donated(borrower, p)
\* answers membership in that set for every p
C34_RefinesPageSet ==
    [][(WellFormed(m_donated_page_map) /\ FreshInsertOrRemove(last'))
       => \A g \in Guests :
             /\ Covered(m_donated_page_map', g)
                   = AbstractStep(Covered(m_donated_page_map, g), g, last')
             /\ \A p \in Pages :
                   page_already_donated(m_donated_page_map', g, p)
                     <=> p \in Covered(m_donated_page_map', g)
      ]_vars

\* a remove took the bottom page of an interval away while the borrower
\* keeps pages in two intervals
C34_Witness ==
    /\ last.op = "remove"
    /\ last.found # NoRange
    /\ WellFormed(m_donated_page_map)
    /\ last.dom \in DOMAIN m_donated_page_map
    /\ Len(m_donated_page_map[last.dom]) >= 2
    /\ \E i \in 1..Len(m_donated_page_map[last.dom]) :
          m_donated_page_map[last.dom][i].start = last.gpa + UV_PAGE_SIZE
    /\ last.gpa \notin Covered(m_donated_page_map, last.dom)

\* C37: donated_pages_to_guest(g) returns true if and only if at least one
\* page is recorded as donated to g; in particular it returns false once
\* every page donated to g was given back with reclaim_root_page
C37_DonatedPagesIffAny ==
    \A g \in Guests :
        donated_pages_to_guest(m_donated_page_map, g)
          <=> Covered(m_donated_page_map, g) # {}

----------------------------------------------------------------------------
(* Properties of the protocol over several guests *)

\* the guests page gpa is recorded as donated to
Borrowers(map, gpa) == { g \in Guests : page_already_donated(map, g, gpa) }

\* C35: over every sequence of donate_root_page, reclaim_root_page and
\* reclaim_root_pages calls with several guests, where the resolver fails
\* for a page the root's map does not hold, no root page is recorded as
\* donated to two guests at the same time
C35_NoDoubleDonationProtocol ==
    \A gpa \in RootPages : Cardinality(Borrowers(m_donated_page_map, gpa)) <= 1

\* C36: when two processors run donate_root_page for the same root page
\* and the same guest, the check of one call and its later insert are not
\* interleaved with the other call's insert of the page: once the calls
\* have returned, every page of the guest lies in exactly one interval and
\* no two of its intervals overlap
C36_ConcurrentDonateSamePage ==
    Quiet =>
        \A d \in DOMAIN m_donated_page_map :
            /\ WellFormedSet(m_donated_page_map[d])
            /\ \A gpa \in RootPages :
                  Cardinality({ i \in 1..Len(m_donated_page_map[d]) :
                                  contains(m_donated_page_map[d][i], gpa) }) <= 1

----------------------------------------------------------------------------
(* Properties of map_dma and prepare_iommus *)

\* C32: map_dma runs its mapping steps only after prepare_iommus completed
\* for the domain: a map_dma call made before it aborts on its contract
\* check without mapping a bus or a device function and without enabling
\* DMA remapping, the steps of the enable loop are taken only by a prepared
\* domain, and when prepare_iommus returns the IOMMU of every device
\* assigned to the domain is a member of the domain's IOMMU set
C32_MapDmaAfterPrepare ==
    [][\A d \in IoDomains :
          /\ (last'.op = "map_dma" /\ last'.dom = d /\ ~iodom[d].m_dma_map_ready)
                => /\ last'.rc = FAIL_FAST
                   /\ last'.maps = << >>
                   /\ iommus' = iommus
                   /\ iodom' = iodom
          /\ (/\ last'.op \in { "dma_remapping_enabled", "enable_dma_remapping" }
              /\ last'.dom = d)
                => iodom[d].m_dma_map_ready
          /\ (last'.op = "prepare_iommus" /\ last'.dom = d)
                => /\ iodom'[d].m_dma_map_ready
                   /\ \A k \in 1..Len(iodom'[d].m_pci_devs) :
                         iommu_set_count(iodom'[d].m_iommu_set,
                                         iodom'[d].m_pci_devs[k].m_iommu) # 0
      ]_vars

\* a domain with a device assigned called map_dma before prepare_iommus
\* and the call aborted
C32_Witness ==
    /\ last.op = "map_dma"
    /\ last.rc = FAIL_FAST
    /\ ~iodom[last.dom].m_dma_map_ready
    /\ Len(iodom[last.dom].m_pci_devs) >= 1
    /\ \A i \in Iommus : ~iommus[i].dma_remapping_enabled

\* C33: every iteration over a domain's IOMMU set (find_catchall_iommu, the
\* enable loops of map_root_dma and map_guest_dma, flush_iotlb,
\* flush_iotlb_page_4k, flush_iotlb_page_2m) holds the IOMMU-set lock, so
\* no iteration runs while another processor is inside add_iommu or
\* remove_iommu on the same domain
C33_IterationUnderLock ==
    \A p \in Cpus :
        cpu[p].pc \in IterPcs =>
            /\ locks["m_iommu_lock"] = p
            /\ \A q \in Cpus \ {p} : cpu[q].pc # "i_in"

\* the processors whose next statement changes the root's map: the
\* demotion of a 2M mapping, the unmap of donate_root_page, the map_4k_rwe
\* of reclaim_root_page and the map_4k_rwe loop of reclaim_root_pages
RootMapWriters ==
    { p \in Cpus : \/ cpu[p].pc = "d_demote" /\ cpu[p].from = PD_FROM
                   \/ cpu[p].pc \in { "d_unmap", "r_map" }
                   \/ cpu[p].pc = "rs_map" /\ cpu[p].writes # << >> }

\* C31: the root's map has one writer at a time: no two processors are
\* inside a mutation of it (demotion, unmap, map_4k) at once, also when one
\* runs donate_root_page and another reclaim_root_page or
\* reclaim_root_pages, or when two donate pages of the same 2M mapping
C31_SingleMapWriter == Cardinality(RootMapWriters) <= 1

----------------------------------------------------------------------------
(* Properties of the builder driver *)

\* the request asks for a known operation and the buffers it needs were
\* handed out
BuffersRetrieved(r) ==
    /\ r.InputBufferLength # 0 /\ r.retrieve_in
    /\ r.OutputBufferLength # 0 => r.retrieve_out
    /\ r.IoControlCode = "IOCTL_CREATE_VM" => r.OutputBufferLength # 0
    /\ r.IoControlCode \in { "IOCTL_CREATE_VM", "IOCTL_DESTROY_VM" }

TimesFreed(frees, x) == Cardinality({ k \in 1..Len(frees) : frees[k] = x })

\* C39: on every return path of ioctl_create_vm (success, allocation
\* failure, copy failure, common_create_vm failure) each kernel buffer it
\* allocated is freed exactly once, nothing else is freed, and args->image,
\* args->initrd and args->cmdl are 0, so the argument structure copied back
\* to the caller holds no kernel buffer address
C39_CreateVmFreesAndClears ==
    (last.op = "ioctl" /\ last.handler.ret \in { "BF_IOCTL_SUCCESS", "BF_IOCTL_FAILURE" }
       /\ last.request.IoControlCode = "IOCTL_CREATE_VM") =>
        /\ \A b \in BufNames :
              /\ TimesFreed(last.handler.frees, KernelBuffer(b))
                    = TimesFreed(last.handler.allocs, KernelBuffer(b))
              /\ TimesFreed(last.handler.allocs, KernelBuffer(b)) <= 1
              /\ last.handler.args.ptr[b] = 0
        /\ \A k \in 1..Len(last.handler.frees) :
              last.handler.frees[k] \in { 0 } \cup { KernelBuffer(b) : b \in BufNames }
        /\ last.copied
        /\ \A b \in BufNames :
              /\ last.out_args.ptr[b] \in { 0, CallerBytes }
              /\ last.request.OutputBufferLength = sizeof_create_vm_args
                    => last.out_args.ptr[b] = 0

\* the copy of the third buffer failed after two buffers were allocated
\* and stored in args
C39_Witness ==
    /\ last.op = "ioctl"
    /\ last.request.IoControlCode = "IOCTL_CREATE_VM"
    /\ last.handler.ret = "BF_IOCTL_FAILURE"
    /\ last.request.fault = [at |-> "copy", buf |-> "cmdl"]
    /\ Len(last.handler.allocs) = 3
    /\ last.handler.frees = << 101, 102, 103 >>

====
